---------------------------- MODULE Spec2Model ----------------------------
(***************************************************************************)
(* Route planning engine of RouteOptimalisatieSysteem:                     *)
(*   client/src/lib/aco-routing.ts  AntColonyOptimizer, TabuSearch,        *)
(*                                  optimizeRouteACOTabu                   *)
(*   client/src/lib/routing.ts      calculateOptimalRoute,                 *)
(*                                  calculateOptimalRoutes,                *)
(*                                  calculateOptimalRoutesWithCapacity     *)
(*                                                                         *)
(* Numbers.  The code computes in IEEE doubles; the model computes in      *)
(* integers.  A coordinate is a whole number of grid steps, a distance a   *)
(* whole number of distance units of 0.01 km (three to a grid step), a     *)
(* pheromone a whole number of 1/PhScale.  Infinity is the value Infinity  *)
(* below and is handled by FLt, FAdd, FMul, FDiv as IEEE handles it; NaN   *)
(* only ever arises in the roulette wheel, where it is modelled in place.  *)
(* Indices are 0-based as in the source: a tour is a sequence of indices,  *)
(* a matrix a function on (0..n-1) \X (0..n-1).                            *)
(***************************************************************************)
EXTENDS Integers, Sequences, FiniteSets, TLC

VARIABLES
  aco,    \* an AntColonyOptimizer in optimize()
  tabu,   \* a TabuSearch in optimize(initialTour)
  cl,     \* the clustering loop of calculateOptimalRoutesWithCapacity
  rt,     \* a call of calculateOptimalRoute
  fl,     \* a call of calculateOptimalRoutes or calculateOptimalRoutesWithCapacity
  search  \* a LocationSearch component and its searches in flight

vars == <<aco, tabu, cl, rt, fl, search>>

\* The value of a variable whose component takes no part in a specification
Idle == [pc |-> "idle"]

----------------------------------------------------------------------------
(* Bounds of the model *)

MaxN == 4            \* points handed to AntColonyOptimizer / TabuSearch
MaxAnts == 2         \* cap on config.numAnts in the ACO state machine
MaxIterations == 2   \* cap on config.numIterations in the ACO state machine
DrawDen == 4         \* Math.random() returns j / DrawDen, j in 0..DrawDen-1
MaxStops == 3        \* stops handed to the clustering and to the pipelines
MaxLoad == 2         \* greatest loadMeters of a stop
MaxVehicles == 2     \* most vehicles of a fleet
MaxCap == 2          \* greatest capacity of a vehicle
MaxChanges == 3      \* changes of the debounced query of a LocationSearch

----------------------------------------------------------------------------
(* Arithmetic *)

Infinity == -1

Min(a, b) == IF a <= b THEN a ELSE b

Max(a, b) == IF a >= b THEN a ELSE b

Abs(a) == IF a < 0 THEN -a ELSE a

\* Math.floor(Math.sqrt(v)) for an integer v >= 0
ISqrt(v) == CHOOSE r \in 0..v : r * r <= v /\ (r + 1) * (r + 1) > v

\* a < b on doubles that are finite and >= 0, or Infinity
FLt(a, b) == IF a = Infinity THEN FALSE ELSE IF b = Infinity THEN TRUE ELSE a < b

FAdd(a, b) == IF a = Infinity \/ b = Infinity THEN Infinity ELSE a + b

\* a * b for a finite factor b > 0
FMul(a, b) == IF a = Infinity THEN Infinity ELSE a * b

\* sum of f[i] over the finite set S
RECURSIVE SumOver(_, _)
SumOver(S, f) ==
  IF S = {} THEN 0
  ELSE LET i == CHOOSE j \in S : TRUE IN FAdd(f[i], SumOver(S \ {i}, f))

\* the sequence s as a set
Range(s) == {s[i] : i \in 1..Len(s)}

----------------------------------------------------------------------------
(* Points *)

\* Coordinates (x = longitude, y = latitude) in grid steps: the corners of a
\* rectangle.
Places == {<<0, 0>>, <<2, 0>>, <<0, 1>>, <<2, 1>>}

\* Point (client/src/components/PointInput.tsx); the name plays no part.
MkPoint(id, place, load) == [id |-> id, x |-> place[1], y |-> place[2], loadMeters |-> load]

\* Point lists of length n whose ids are 1..n, without loads, the first point
\* at the origin: every other list over Places is a mirror image of one of
\* these, with the same distances.
PointLists(n) ==
  {[i \in 1..n |-> MkPoint(i, f[i], 0)] : f \in {g \in [1..n -> Places] : g[1] = <<0, 0>>}}

\* calculateDistance: the haversine distance of two points a few grid steps
\* apart, in distance units, three to a grid step, rounded down.
calculateDistance(p, q) ==
  ISqrt(9 * ((p.x - q.x) * (p.x - q.x) + (p.y - q.y) * (p.y - q.y)))

\* buildDistanceMatrix: symmetric, zero on the diagonal
buildDistanceMatrix(points) ==
  [c \in (0..Len(points) - 1) \X (0..Len(points) - 1) |->
     IF c[1] = c[2] THEN 0
     ELSE IF c[1] < c[2] THEN calculateDistance(points[c[1] + 1], points[c[2] + 1])
     ELSE calculateDistance(points[c[2] + 1], points[c[1] + 1])]

\* calculateTourDistance
calculateTourDistance(matrix, tour) ==
  LET distance[i \in 0..Len(tour) - 1] ==
        IF i = 0 THEN 0 ELSE FAdd(distance[i - 1], matrix[<<tour[i], tour[i + 1]>>])
  IN distance[Len(tour) - 1]

----------------------------------------------------------------------------
(* AntColonyOptimizer (aco-routing.ts 39-197) *)

\* The defaults of the constructor; the state machine caps the two budgets.
ACOConfig(n) ==
  [numAnts |-> Min(Min(n, 20), MaxAnts),
   numIterations |-> Min(Min(100, n * 2), MaxIterations),
   evaporationPct |-> 50,
   Q |-> 100]

\* initializePheromones: uniform 1.0
initializePheromones(n) == [c \in (0..n - 1) \X (0..n - 1) |-> 1 * 2]

\* Math.pow(1.0 / (distance + 0.01), beta) with beta = 2.5 and the distance d
\* in units of 0.01 km: (100 / (d + 1)) ^ 2.5, in hundredths, rounded down.
Heuristic(d) == 10000 \div ((d + 1) * (d + 1) * ISqrt(100 * (d + 1)))

\* The mutant: a visited city keeps its weight.
ProbabilitiesKeepVisited(a, current, visited) ==
  [i \in 0..Len(a.points) - 1 |->
     FMul(a.pheromoneMatrix[<<current, i>>], Heuristic(a.distanceMatrix[<<current, i>>]))]

\* The weights selectNextCity gives the cities (alpha = 1.0): 0 for a visited one.
Probabilities(a, current, visited) ==
  [i \in 0..Len(a.points) - 1 |->
     IF i \in visited THEN 0
     ELSE FMul(a.pheromoneMatrix[<<current, i>>], Heuristic(a.distanceMatrix[<<current, i>>]))]

\* selectNextCity with Math.random() = j / DrawDen.  With an infinite sum the
\* wheel's `random` is Infinity or NaN and stays so, never <= 0; with every
\* weight 0 the wheel skips every city: both fall through to the first
\* unvisited city, and to 0 when there is none.
selectNextCity(a, current, visited, j) ==
  LET n == Len(a.points)
      prob == Probabilities(a, current, visited)
      sum == SumOver(0..n - 1, prob)
      Cum(i) == SumOver(0..i, prob)
      Hits == IF sum = Infinity THEN {}
              ELSE {i \in 0..n - 1 : prob[i] # 0 /\ j * sum - DrawDen * Cum(i) <= 0}
      Unvisited == (0..n - 1) \ visited
  IN IF Hits # {} THEN CHOOSE i \in Hits : \A m \in Hits : i <= m
     ELSE IF Unvisited # {} THEN CHOOSE i \in Unvisited : \A m \in Unvisited : i <= m
     ELSE 0

\* How often the tour traverses from -> to or to -> from as (c[1], c[2])
Traversals(tour, c) ==
  Cardinality({i \in 1..Len(tour) - 1 : <<tour[i], tour[i + 1]>> = c})
  + Cardinality({i \in 1..Len(tour) - 1 : <<tour[i + 1], tour[i]>> = c})

\* config.Q / ant.distance, in 1/2 pheromone units: Infinity for a tour of length 0
Deposit(cfg, distance) ==
  IF distance = 0 THEN Infinity ELSE (cfg.Q * 100 * 2) \div distance

\* The mutant: an ant deposits on from -> to only.
updatePheromonesOneWay(a) ==
  [c \in DOMAIN a.pheromoneMatrix |->
     LET evaporated == IF a.pheromoneMatrix[c] = Infinity THEN Infinity
                       ELSE (a.pheromoneMatrix[c] * (100 - a.config.evaporationPct)) \div 100
         Forward(m) == Cardinality({i \in 1..Len(a.ants[m].tour) - 1 :
                                      <<a.ants[m].tour[i], a.ants[m].tour[i + 1]>> = c})
         Laid(m) == IF Forward(m) = 0 THEN 0
                    ELSE FMul(Deposit(a.config, a.ants[m].distance), Forward(m))
     IN FAdd(evaporated, SumOver(1..Len(a.ants), [m \in 1..Len(a.ants) |-> Laid(m)]))]

\* updatePheromones: evaporation of every cell, then every ant's deposits
updatePheromones(a) ==
  [c \in DOMAIN a.pheromoneMatrix |->
     LET evaporated == IF a.pheromoneMatrix[c] = Infinity THEN Infinity
                       ELSE (a.pheromoneMatrix[c] * (100 - a.config.evaporationPct)) \div 100
         Laid(m) == IF Traversals(a.ants[m].tour, c) = 0 THEN 0
                    ELSE FMul(Deposit(a.config, a.ants[m].distance), Traversals(a.ants[m].tour, c))
     IN FAdd(evaporated, SumOver(1..Len(a.ants), [m \in 1..Len(a.ants) |-> Laid(m)]))]

\* new AntColonyOptimizer(points), at the top of optimize(); `constructed`
\* lists the ants of all iterations so far in the order of their construction
AcoStart(points) ==
  [points |-> points,
   config |-> ACOConfig(Len(points)),
   distanceMatrix |-> buildDistanceMatrix(points),
   pheromoneMatrix |-> initializePheromones(Len(points)),
   iteration |-> 0, k |-> 0, ants |-> <<>>,
   tour |-> <<0>>, visited |-> {0},
   bestTour |-> <<>>, bestDistance |-> Infinity,
   constructed |-> <<>>,
   pc |-> "run", result |-> <<>>]

\* One turn of the while loop of constructAntSolution on the draw j / DrawDen
AntStep(a, j) ==
  LET next == selectNextCity(a, a.tour[Len(a.tour)], a.visited, j)
  IN [a EXCEPT !.tour = Append(@, next), !.visited = @ \cup {next}]

\* The mutant: a tour as short as the best one replaces it.
IsBetterOrEqual(distance, bestDistance) == ~FLt(bestDistance, distance)

\* ant.distance < bestDistance
IsBetter(distance, bestDistance) == FLt(distance, bestDistance)

\* The end of constructAntSolution and the bookkeeping of optimize for the ant
AntDone(a) ==
  LET tour == Append(a.tour, 0)
      distance == calculateTourDistance(a.distanceMatrix, tour)
      better == IsBetter(distance, a.bestDistance)
  IN [a EXCEPT !.ants = Append(@, [tour |-> tour, distance |-> distance]),
               !.constructed = Append(@, [tour |-> tour, distance |-> distance]),
               !.bestDistance = IF better THEN distance ELSE @,
               !.bestTour = IF better THEN tour ELSE @,
               !.k = @ + 1,
               !.tour = <<0>>, !.visited = {0}]

\* The end of one iteration of optimize
RoundDone(a) ==
  [a EXCEPT !.pheromoneMatrix = updatePheromones(a),
            !.iteration = @ + 1, !.k = 0, !.ants = <<>>]

\* return bestTour
AcoFinished(a) == [a EXCEPT !.pc = "done", !.result = a.bestTour]

\* optimize() from the state a to its return when every Math.random() of the
\* run gives j / DrawDen
RECURSIVE AcoRunOnDraw(_, _)
AcoRunOnDraw(a, j) ==
  IF a.iteration >= a.config.numIterations THEN AcoFinished(a)
  ELSE IF a.k >= a.config.numAnts THEN AcoRunOnDraw(RoundDone(a), j)
  ELSE IF Cardinality(a.visited) >= Len(a.points) THEN AcoRunOnDraw(AntDone(a), j)
  ELSE AcoRunOnDraw(AntStep(a, j), j)

AcoInit ==
  /\ \E n \in 1..MaxN : \E points \in PointLists(n) : aco = AcoStart(points)
  /\ tabu = Idle /\ cl = Idle /\ rt = Idle /\ fl = Idle /\ search = Idle

\* constructAntSolution, one turn of its while loop
AcoSelectCity ==
  /\ aco.pc = "run"
  /\ aco.iteration < aco.config.numIterations
  /\ aco.k < aco.config.numAnts
  /\ Cardinality(aco.visited) < Len(aco.points)
  /\ \E j \in 0..DrawDen - 1 : aco' = AntStep(aco, j)
  /\ UNCHANGED <<tabu, cl, rt, fl, search>>

\* constructAntSolution after its loop, and optimize's bookkeeping for the ant
AcoCloseTour ==
  /\ aco.pc = "run"
  /\ aco.iteration < aco.config.numIterations
  /\ aco.k < aco.config.numAnts
  /\ Cardinality(aco.visited) >= Len(aco.points)
  /\ aco' = AntDone(aco)
  /\ UNCHANGED <<tabu, cl, rt, fl, search>>

\* the end of one iteration of optimize
AcoUpdatePheromones ==
  /\ aco.pc = "run"
  /\ aco.iteration < aco.config.numIterations
  /\ aco.k >= aco.config.numAnts
  /\ aco' = RoundDone(aco)
  /\ UNCHANGED <<tabu, cl, rt, fl, search>>

AcoReturn ==
  /\ aco.pc = "run"
  /\ aco.iteration >= aco.config.numIterations
  /\ aco' = AcoFinished(aco)
  /\ UNCHANGED <<tabu, cl, rt, fl, search>>

AcoNext == AcoSelectCity \/ AcoCloseTour \/ AcoUpdatePheromones \/ AcoReturn

SpecACO == AcoInit /\ [][AcoNext]_vars

\* A tour over n points: depot first and last, each other index once between.
IsTour(t, n) ==
  /\ Len(t) = n + 1
  /\ t[1] = 0 /\ t[n + 1] = 0
  /\ \A c \in 1..n - 1 : Cardinality({i \in 2..n : t[i] = c}) = 1
  /\ \A i \in 2..n : t[i] \in 1..n - 1

\* C1: optimize() returns a tour that begins and ends at index 0 and holds
\* each of 1..n-1 exactly once in between, whatever the draws; while an ant is
\* under construction its tour never repeats a city (selectNextCity returns
\* no visited index while an unvisited one exists).
C1_AcoReturnsTour ==
  /\ aco.pc = "done" => IsTour(aco.result, Len(aco.points))
  /\ aco.pc = "run" =>
       /\ Cardinality(Range(aco.tour)) = Len(aco.tour)
       /\ aco.visited = Range(aco.tour)

\* C1 witness: a run over MaxN points returned a tour that is not in index order
C1_Witness ==
  /\ aco.pc = "done"
  /\ Len(aco.points) = MaxN
  /\ IsTour(aco.result, MaxN)
  /\ aco.result[2] # 1

\* C15 as stated: the tour optimize() returns is fixed by the points, the
\* configuration and the seed; the code takes no seed, so two runs on the same
\* points and configuration return the same tour: every run returns the tour
\* of the run whose draws are all 0.
C15_SameSeedSameTour ==
  aco.pc = "done" => aco.result = AcoRunOnDraw(AcoStart(aco.points), 0).result

\* C17: the best tour of optimize() is, at every moment, the first of the
\* tours constructed so far (all ants, all iterations) that has the lowest
\* distance among them, and that tour is what optimize() returns.
C17_ReturnsFirstMinimum ==
  /\ aco.pc \in {"run", "done"} /\ aco.constructed # <<>> =>
       \E m \in 1..Len(aco.constructed) :
         /\ aco.bestTour = aco.constructed[m].tour
         /\ aco.bestDistance = aco.constructed[m].distance
         /\ \A o \in 1..Len(aco.constructed) :
              /\ aco.constructed[m].distance <= aco.constructed[o].distance
              /\ o < m => aco.constructed[o].distance > aco.constructed[m].distance
  /\ aco.pc = "done" => aco.constructed # <<>> /\ aco.result = aco.bestTour

\* optimize() returned the earlier of two different tours of the lowest
\* distance, constructed after a longer tour
C17_Witness ==
  /\ aco.pc = "done"
  /\ \E m, o \in 1..Len(aco.constructed) :
       /\ 1 < m /\ m < o
       /\ aco.constructed[1].distance > aco.constructed[m].distance
       /\ aco.constructed[o].distance = aco.constructed[m].distance
       /\ aco.constructed[o].tour # aco.constructed[m].tour
       /\ aco.result = aco.constructed[m].tour

\* A pheromone value is a double that is 0 or more, Infinity included
NonNegative(v) == v = Infinity \/ v >= 0

\* The cell c times (1 - evaporationRate), in whole pheromone units
Evaporated(a, c) ==
  IF a.pheromoneMatrix[c] = Infinity THEN Infinity
  ELSE (a.pheromoneMatrix[c] * (100 - a.config.evaporationPct)) \div 100

\* What the ants of the round deposit on the cell c: Q / distance of the ant
\* for every step of its tour over c in either direction
DepositsOn(a, c) ==
  LET Steps(m) == {i \in 1..Len(a.ants[m].tour) - 1 :
                     <<a.ants[m].tour[i], a.ants[m].tour[i + 1]>> = c}
      Back(m) == {i \in 1..Len(a.ants[m].tour) - 1 :
                    <<a.ants[m].tour[i + 1], a.ants[m].tour[i]>> = c}
      Of(m) == IF Steps(m) \cup Back(m) = {} THEN 0
               ELSE FMul(Deposit(a.config, a.ants[m].distance),
                         Cardinality(Steps(m)) + Cardinality(Back(m)))
  IN SumOver(1..Len(a.ants), [m \in 1..Len(a.ants) |-> Of(m)])

\* C18: the pheromone matrix is uniform at 1.0 until the first round ends,
\* it is symmetric and non-negative at every moment, and the end of a round
\* sets every cell to its value times (1 - evaporationRate) plus what the
\* ants of the round deposit on it in both directions.
C18_PheromoneUpdate ==
  /\ [](aco.pc \in {"run", "done"} =>
          /\ aco.iteration = 0 =>
               \A c \in DOMAIN aco.pheromoneMatrix : aco.pheromoneMatrix[c] = 1 * 2
          /\ \A c \in DOMAIN aco.pheromoneMatrix :
               /\ NonNegative(aco.pheromoneMatrix[c])
               /\ aco.pheromoneMatrix[c] = aco.pheromoneMatrix[<<c[2], c[1]>>])
  /\ [][aco'.iteration = aco.iteration + 1 =>
          \A c \in DOMAIN aco.pheromoneMatrix :
            aco'.pheromoneMatrix[c]
              = FAdd(Evaporated(aco, c), DepositsOn(aco, c))]_vars

\* A round has left a finite matrix whose cells are not all equal
C18_Witness ==
  /\ aco.pc = "run"
  /\ aco.iteration >= 1
  /\ Len(aco.points) >= 3
  /\ \A c \in DOMAIN aco.pheromoneMatrix : aco.pheromoneMatrix[c] # Infinity
  /\ \E c, d \in DOMAIN aco.pheromoneMatrix : aco.pheromoneMatrix[c] > aco.pheromoneMatrix[d]

----------------------------------------------------------------------------
(* TabuSearch (aco-routing.ts 202-303) *)

\* The defaults of the constructor
TabuConfig(n) ==
  [maxIterations |-> Min(200, n * 3),
   tabuTenure |-> ISqrt(n)]

\* The mutant: the reversed stretch begins one position early.
twoOptSwapFromBefore(tour, i, k) ==
  [p \in 1..Len(tour) |->
     IF i - 1 <= p - 1 /\ p - 1 <= k THEN tour[(i - 1) + k - (p - 1) + 1] ELSE tour[p]]

\* twoOptSwap: positions i..k (0-based) reversed
twoOptSwap(tour, i, k) ==
  [p \in 1..Len(tour) |->
     IF i <= p - 1 /\ p - 1 <= k THEN tour[i + k - (p - 1) + 1] ELSE tour[p]]

\* The mutant: the inner loop stops one position early.
MovesShort(n) == {m \in (1..n - 2) \X (2..n - 2) : m[1] < m[2]}

\* The moves of one neighbourhood scan, n = currentTour.length - 1
Moves(n) == {m \in (1..n - 2) \X (2..n - 1) : m[1] < m[2]}

\* The scan visits the moves in the order of its two loops.
MoveBefore(m1, m2) == m1[1] < m2[1] \/ (m1[1] = m2[1] /\ m1[2] < m2[2])

CandidateDistance(t, m) ==
  calculateTourDistance(t.distanceMatrix, twoOptSwap(t.currentTour, m[1], m[2]))

\* Not tabu, or better than the best known tour (aspiration)
Eligible(t, m) ==
  m \notin Range(t.tabuList) \/ CandidateDistance(t, m) < t.bestDistance

EligibleMoves(t) == {m \in Moves(Len(t.currentTour) - 1) : Eligible(t, m)}

\* The mutant: the scan takes the tabu moves as well.
BestMoveIgnoringTabu(t) ==
  LET distance == [m \in Moves(Len(t.currentTour) - 1) |-> CandidateDistance(t, m)]
  IN CHOOSE m \in DOMAIN distance :
       \A o \in DOMAIN distance \ {m} :
         \/ distance[m] < distance[o]
         \/ distance[m] = distance[o] /\ MoveBefore(m, o)

\* bestMove after the scan: the first eligible move of the lowest distance
BestMove(t) ==
  LET distance == [m \in Moves(Len(t.currentTour) - 1) |-> CandidateDistance(t, m)]
      tabuMoves == Range(t.tabuList)
      eligible == {m \in DOMAIN distance :
                     m \notin tabuMoves \/ distance[m] < t.bestDistance}
  IN CHOOSE m \in eligible :
       \A o \in eligible \ {m} :
         \/ distance[m] < distance[o]
         \/ distance[m] = distance[o] /\ MoveBefore(m, o)

\* The mutant: the key that goes once the list is too long is the newest.
TabuListAfterEvictNewest(t, move) ==
  LET added == IF move \in Range(t.tabuList) THEN t.tabuList ELSE Append(t.tabuList, move)
  IN IF Len(added) > t.config.tabuTenure THEN SubSeq(added, 1, Len(added) - 1) ELSE added

\* tabuList.add(bestMove) on a Set kept in insertion order, then the eviction
\* of its first key once it holds more than tabuTenure keys
TabuListAfter(t, move) ==
  LET added == IF move \in Range(t.tabuList) THEN t.tabuList ELSE Append(t.tabuList, move)
  IN IF Len(added) > t.config.tabuTenure THEN Tail(added) ELSE added

\* The mutant: the candidate replaces the best tour whatever its distance.
UpdateBestAlways(t, candidate, candidateDistance) ==
  [bestTour |-> candidate, bestDistance |-> candidateDistance]

\* The mutant: a candidate of the same distance replaces the best tour too.
UpdateBestOrEqual(t, candidate, candidateDistance) ==
  IF candidateDistance <= t.bestDistance
  THEN [bestTour |-> candidate, bestDistance |-> candidateDistance]
  ELSE [bestTour |-> t.bestTour, bestDistance |-> t.bestDistance]

\* "Update best solution": only a strictly shorter candidate replaces it
UpdateBest(t, candidate, candidateDistance) ==
  IF candidateDistance < t.bestDistance
  THEN [bestTour |-> candidate, bestDistance |-> candidateDistance]
  ELSE [bestTour |-> t.bestTour, bestDistance |-> t.bestDistance]

\* new TabuSearch(points), at the top of optimize(initialTour)
TabuStart(points, initialTour) ==
  [points |-> points,
   config |-> TabuConfig(Len(points)),
   distanceMatrix |-> buildDistanceMatrix(points),
   initialTour |-> initialTour,
   currentTour |-> initialTour,
   bestTour |-> initialTour,
   bestDistance |-> calculateTourDistance(buildDistanceMatrix(points), initialTour),
   tabuList |-> <<>>,
   applied |-> <<>>,
   iteration |-> 0,
   pc |-> "run", result |-> <<>>]

\* The tours AntColonyOptimizer.optimize returns over n points
Tours(n) == {t \in [1..n + 1 -> 0..n - 1] : IsTour(t, n)}

TabuInit ==
  /\ \E n \in 1..MaxN : \E points \in PointLists(n) : \E initialTour \in Tours(n) :
       tabu = TabuStart(points, initialTour)
  /\ aco = Idle /\ cl = Idle /\ rt = Idle /\ fl = Idle /\ search = Idle

\* One iteration of optimize that finds a candidate: the state after it
TabuIteration(t) ==
  LET move == BestMove(t)
      candidate == twoOptSwap(t.currentTour, move[1], move[2])
      best == UpdateBest(t, candidate, CandidateDistance(t, move))
  IN [t EXCEPT !.currentTour = candidate,
               !.tabuList = TabuListAfter(t, move),
               !.applied = Append(@, move),
               !.bestTour = best.bestTour,
               !.bestDistance = best.bestDistance,
               !.iteration = @ + 1]

\* return bestTour
TabuFinished(t) == [t EXCEPT !.pc = "done", !.result = t.bestTour]

\* optimize(initialTour) from the state t to its return
RECURSIVE TabuRun(_)
TabuRun(t) ==
  IF t.iteration < t.config.maxIterations /\ EligibleMoves(t) # {}
  THEN TabuRun(TabuIteration(t))
  ELSE TabuFinished(t)

\* new TabuSearch(points).optimize(initialTour)
TabuOptimize(points, initialTour) == TabuRun(TabuStart(points, initialTour)).result

TabuIterate ==
  /\ tabu.pc = "run"
  /\ tabu.iteration < tabu.config.maxIterations
  /\ EligibleMoves(tabu) # {}
  /\ tabu' = TabuIteration(tabu)
  /\ UNCHANGED <<aco, cl, rt, fl, search>>

\* "if (!bestCandidate) break", then the return
TabuBreak ==
  /\ tabu.pc = "run"
  /\ tabu.iteration < tabu.config.maxIterations
  /\ EligibleMoves(tabu) = {}
  /\ tabu' = TabuFinished(tabu)
  /\ UNCHANGED <<aco, cl, rt, fl, search>>

\* the loop ran out of iterations
TabuReturn ==
  /\ tabu.pc = "run"
  /\ tabu.iteration >= tabu.config.maxIterations
  /\ tabu' = TabuFinished(tabu)
  /\ UNCHANGED <<aco, cl, rt, fl, search>>

TabuNext == TabuIterate \/ TabuBreak \/ TabuReturn

SpecTabu == TabuInit /\ [][TabuNext]_vars

\* Six points each, far enough apart for a tabu move to beat the best tour
Layouts ==
  {<<<<0, 0>>, <<1, 0>>, <<0, 2>>, <<2, 0>>, <<1, 2>>, <<2, 1>>>>,
   <<<<0, 0>>, <<2, 2>>, <<1, 0>>, <<0, 1>>, <<2, 1>>, <<3, 1>>>>}

\* The searches of SpecTabu and the searches over the layouts, from every tour
TabuLayoutInit ==
  \/ TabuInit
  \/ /\ \E layout \in Layouts : \E initialTour \in Tours(Len(layout)) :
          tabu = TabuStart([i \in 1..Len(layout) |-> MkPoint(i, layout[i], 0)],
                           initialTour)
     /\ aco = Idle /\ cl = Idle /\ rt = Idle /\ fl = Idle /\ search = Idle

SpecTabuLayouts == TabuLayoutInit /\ [][TabuNext]_vars

TabuDistance(tour) == calculateTourDistance(tabu.distanceMatrix, tour)

\* C2: the tour TabuSearch.optimize returns is no longer than its initial
\* tour, whatever moves the search applied to its current tour: after every
\* iteration the tour it would return (bestTour) is no longer than the initial
\* tour and bestDistance is its length, and the returned tour is that tour.
C2_TabuNeverWorse ==
  /\ tabu.bestDistance = TabuDistance(tabu.bestTour)
  /\ tabu.bestDistance <= TabuDistance(tabu.initialTour)
  /\ tabu.pc = "done" =>
       /\ tabu.result = tabu.bestTour
       /\ TabuDistance(tabu.result) <= TabuDistance(tabu.initialTour)

\* C2 witness: the search returned a tour shorter than the initial one after
\* worsening moves had left its current tour longer than the returned one
C2_Witness ==
  /\ tabu.pc = "done"
  /\ TabuDistance(tabu.currentTour) > TabuDistance(tabu.result)
  /\ TabuDistance(tabu.result) < TabuDistance(tabu.initialTour)

\* C14: after any number of iterations of TabuSearch.optimize the current
\* tour and the best tour are closed tours over the indices of the initial
\* tour: index 0 first and last, every other index exactly once in between.
C14_MovesKeepTourValid ==
  /\ IsTour(tabu.currentTour, Len(tabu.points))
  /\ IsTour(tabu.bestTour, Len(tabu.points))
  /\ Range(tabu.currentTour) = Range(tabu.initialTour)
  /\ Range(tabu.bestTour) = Range(tabu.initialTour)
  /\ tabu.pc = "done" => IsTour(tabu.result, Len(tabu.points))

\* Three iterations over MaxN points have left a current tour and a best
\* tour that differ from the initial tour and from each other
C14_Witness ==
  /\ tabu.iteration >= 3
  /\ Len(tabu.points) = MaxN
  /\ tabu.currentTour # tabu.initialTour
  /\ tabu.bestTour # tabu.initialTour
  /\ tabu.currentTour # tabu.bestTour

\* C19: an iteration of TabuSearch.optimize turns the current tour into the
\* tour of a move that is not tabu or that beats the best known distance, and
\* no eligible move gives a shorter tour; while iterations are left, the
\* search returns exactly when no move is eligible.
C19_AppliesBestEligibleMove ==
  [][(tabu.pc = "run" /\ tabu.iteration < tabu.config.maxIterations) =>
       /\ tabu'.iteration = tabu.iteration + 1 =>
            \E m \in Moves(Len(tabu.currentTour) - 1) :
              /\ tabu'.currentTour = twoOptSwap(tabu.currentTour, m[1], m[2])
              /\ m \notin Range(tabu.tabuList) \/ CandidateDistance(tabu, m) < tabu.bestDistance
              /\ \A o \in Moves(Len(tabu.currentTour) - 1) :
                   (o \notin Range(tabu.tabuList)
                      \/ CandidateDistance(tabu, o) < tabu.bestDistance)
                     => CandidateDistance(tabu, m) <= CandidateDistance(tabu, o)
       /\ tabu'.pc = "done" <=>
            \A o \in Moves(Len(tabu.currentTour) - 1) :
              /\ o \in Range(tabu.tabuList)
              /\ ~(CandidateDistance(tabu, o) < tabu.bestDistance)]_vars

\* Iterations are left, a move is eligible, and a tabu move that is not
\* eligible would give a shorter tour than every eligible move
C19_Witness ==
  /\ tabu.pc = "run"
  /\ tabu.iteration >= 1
  /\ tabu.iteration < tabu.config.maxIterations
  /\ EligibleMoves(tabu) # {}
  /\ \E m \in Range(tabu.tabuList) :
       /\ ~Eligible(tabu, m)
       /\ \A o \in EligibleMoves(tabu) :
            CandidateDistance(tabu, m) < CandidateDistance(tabu, o)

\* C20: after every iteration of TabuSearch.optimize the tabu list holds at
\* most tabuTenure keys; the keys it held and the key of the applied move stay
\* in the order they were inserted, and the only key that can be missing after
\* the iteration is the one inserted earliest.
C20_TabuListIsFifo ==
  /\ [](tabu.pc \in {"run", "done"} => Len(tabu.tabuList) <= tabu.config.tabuTenure)
  /\ [][tabu'.iteration = tabu.iteration + 1 =>
          \E m \in Moves(Len(tabu.currentTour) - 1) :
            /\ tabu'.currentTour = twoOptSwap(tabu.currentTour, m[1], m[2])
            /\ \E held \in {IF m \in Range(tabu.tabuList)
                             THEN tabu.tabuList
                             ELSE Append(tabu.tabuList, m)} :
                 \/ tabu'.tabuList = held
                 \/ /\ Len(held) > tabu.config.tabuTenure
                    /\ tabu'.tabuList = Tail(held)]_vars

\* A search of four points that made more iterations than its list holds
\* keys: its list is full and earlier keys were evicted
C20_Witness ==
  /\ tabu.pc = "run"
  /\ Len(tabu.points) = 4
  /\ tabu.iteration > tabu.config.tabuTenure
  /\ Len(tabu.tabuList) = tabu.config.tabuTenure
  /\ tabu.config.tabuTenure >= 2

\* C21 as stated: the move applied in an iteration of TabuSearch.optimize is
\* in the tabu list at each of the next tabuTenure iterations, also when it was
\* tabu already and was applied through aspiration.  applied[j] is the move of
\* the j-th iteration made, after which tabu.iteration = j.
C21_AppliedMoveStaysTabu ==
  (tabu.pc = "run" /\ tabu.iteration < tabu.config.maxIterations) =>
    \A j \in 1..Len(tabu.applied) :
      tabu.iteration - j < tabu.config.tabuTenure
        => tabu.applied[j] \in Range(tabu.tabuList)

\* C22 as stated: with n the tour length minus the closing depot return, the
\* moves of an iteration are exactly the (i, k) with 1 <= i < k < n - 1.
C22_MovesBelowLastInterior ==
  tabu.pc = "run" =>
    \A n \in {Len(tabu.currentTour) - 1} :
      Moves(n) = {m \in (0..n) \X (0..n) : 1 <= m[1] /\ m[1] < m[2] /\ m[2] < n - 1}

\* C22: with n the tour length minus the closing depot return, the moves of an
\* iteration are exactly the (i, k) with 1 <= i < k <= n - 1, position n - 1
\* being the last stop before the closing return; no move changes position 0
\* or position n, the closing return.
C22_MovesOverInterior ==
  tabu.pc = "run" =>
    \A n \in {Len(tabu.currentTour) - 1} :
      /\ Moves(n) = {m \in (0..n) \X (0..n) : 1 <= m[1] /\ m[1] < m[2] /\ m[2] <= n - 1}
      /\ \A m \in Moves(n) :
           /\ twoOptSwap(tabu.currentTour, m[1], m[2])[1] = tabu.currentTour[1]
           /\ twoOptSwap(tabu.currentTour, m[1], m[2])[n + 1] = tabu.currentTour[n + 1]

\* A search has applied a move that reaches the last stop before the closing
\* return
C22_Witness ==
  /\ tabu.pc = "run"
  /\ Len(tabu.points) >= 4
  /\ \E j \in 1..Len(tabu.applied) : tabu.applied[j][2] = Len(tabu.currentTour) - 2

----------------------------------------------------------------------------
(* The clustering of calculateOptimalRoutesWithCapacity (routing.ts 231-341) *)

\* Stop lists of length n: ids 1..n, loads 0 (absent) to MaxLoad, the first
\* stop at the origin (clustering commutes with the mirror images of Places).
StopLists(n) ==
  {[i \in 1..n |-> MkPoint(i, f[i], l[i])] :
     f \in {g \in [1..n -> Places] : g[1] = <<0, 0>>}, l \in [1..n -> 0..MaxLoad]}

\* Capacities of 1..MaxVehicles vehicles, vehicles numbered from 0
CapacityLists ==
  UNION {[0..k - 1 -> 1..MaxCap] : k \in 1..MaxVehicles}

\* x placed in the descending list r behind every stop of a greater load
RECURSIVE InsertByLoad(_, _)
InsertByLoad(x, r) ==
  IF r = <<>> \/ r[1].loadMeters <= x.loadMeters THEN <<x>> \o r
  ELSE <<r[1]>> \o InsertByLoad(x, Tail(r))

\* [...points].sort((a, b) => (b.loadMeters || 0) - (a.loadMeters || 0)):
\* descending, stable
RECURSIVE SortByLoad(_)
SortByLoad(points) ==
  IF points = <<>> THEN <<>>
  ELSE InsertByLoad(points[1], SortByLoad(Tail(points)))

RECURSIVE Factorial(_)
Factorial(n) == IF n <= 1 THEN 1 ELSE n * Factorial(n - 1)

\* A centroid is a mean of up to n coordinates: it is kept as a whole number
\* of 1/CentroidScale(n) grid steps.
CentroidScale(n) == Factorial(n)

\* The initial centroids: every floor(n / k)-th stop of the sorted list
InitialCentroids(pts, k) ==
  LET n == Len(pts)
      step == n \div k
  IN [c \in 0..k - 1 |->
        LET idx == Min(c * step, n - 1)
        IN [x |-> pts[idx + 1].x * CentroidScale(n), y |-> pts[idx + 1].y * CentroidScale(n)]]

\* dx * dx + dy * dy of stop i and centroid c; the code compares the square
\* roots, which are in the same order
SquaredDistance(c, i, v) ==
  LET S == CentroidScale(Len(c.pts))
      dx == c.pts[i + 1].x * S - c.centroids[v].x
      dy == c.pts[i + 1].y * S - c.centroids[v].y
  IN dx * dx + dy * dy

\* The mutant: every vehicle has room for every stop.
FitsAnyLoad(c, loads, i, v) == TRUE

\* The mutant: a vehicle has room only for a stop that leaves some capacity.
FitsStrictly(c, loads, i, v) == loads[v] + c.pts[i + 1].loadMeters < c.vehicleCapacities[v]

\* "Check of er nog capaciteit is"
Fits(c, loads, i, v) == loads[v] + c.pts[i + 1].loadMeters <= c.vehicleCapacities[v]

\* The mutant: the nearest centroid, with room or without.
NearestIgnoringRoom(c, loads, i) ==
  LET K == DOMAIN c.vehicleCapacities
  IN CHOOSE v \in K :
       \A o \in K \ {v} :
         \/ SquaredDistance(c, i, v) < SquaredDistance(c, i, o)
         \/ SquaredDistance(c, i, v) = SquaredDistance(c, i, o) /\ v < o

\* `best` of the first pass for stop i: the nearest centroid among the
\* vehicles with room, the lowest index among equals, -1 without any
NearestWithRoom(c, loads, i) ==
  LET K == DOMAIN c.vehicleCapacities
      Room == {v \in K : Fits(c, loads, i, v)}
  IN IF Room = {} THEN -1
     ELSE CHOOSE v \in Room :
            \A o \in Room \ {v} :
              \/ SquaredDistance(c, i, v) < SquaredDistance(c, i, o)
              \/ SquaredDistance(c, i, v) = SquaredDistance(c, i, o) /\ v < o

\* The first pass from stop i on: [loads, temp, unassigned]
RECURSIVE FirstPass(_, _, _)
FirstPass(c, i, acc) ==
  IF i >= Len(c.pts) THEN acc
  ELSE LET best == NearestWithRoom(c, acc.loads, i)
       IN FirstPass(c, i + 1,
            IF best # -1
            THEN [acc EXCEPT !.temp[i] = best,
                             !.loads[best] = @ + c.pts[i + 1].loadMeters]
            ELSE [acc EXCEPT !.unassigned = Append(@, i)])

\* The mutant: bestVehicle stays the first vehicle.
MostRemainingFirst(c, loads) == 0

\* `bestVehicle`: the greatest remaining capacity, the lowest index among equals
MostRemaining(c, loads) ==
  LET K == DOMAIN c.vehicleCapacities
      Remaining(v) == c.vehicleCapacities[v] - loads[v]
  IN CHOOSE v \in K :
       \A o \in K \ {v} : Remaining(v) > Remaining(o) \/ (Remaining(v) = Remaining(o) /\ v < o)

\* The mutant: the forced stop is assigned and its load forgotten.
ForceAssignNoLoad(c, acc, i) ==
  [acc EXCEPT !.temp[i] = MostRemaining(c, acc.loads)]

\* One forced assignment (routing.ts 290-302)
ForceAssign(c, acc, i) ==
  LET bestVehicle == MostRemaining(c, acc.loads)
  IN [acc EXCEPT !.temp[i] = bestVehicle,
                 !.loads[bestVehicle] = @ + c.pts[i + 1].loadMeters]

\* The second pass over the deferred stops from the j-th on
RECURSIVE ForcedPass(_, _, _)
ForcedPass(c, j, acc) ==
  IF j > Len(acc.unassigned) THEN acc
  ELSE ForcedPass(c, j + 1, ForceAssign(c, acc, acc.unassigned[j]))

\* Both passes of one round
AssignRound(c) ==
  LET K == DOMAIN c.vehicleCapacities
      n == Len(c.pts)
      start == [loads |-> [v \in K |-> 0],
                temp |-> [i \in 0..n - 1 |-> -1],
                unassigned |-> <<>>]
  IN ForcedPass(c, 1, FirstPass(c, 0, start))

\* The centroid of vehicle v after the assignment a: the mean of its stops,
\* the old centroid when it has none
NewCentroid(c, a, v) ==
  LET S == CentroidScale(Len(c.pts))
      Mine == {i \in 0..Len(c.pts) - 1 : a[i] = v}
      sx == SumOver(Mine, [i \in Mine |-> c.pts[i + 1].x])
      sy == SumOver(Mine, [i \in Mine |-> c.pts[i + 1].y])
  IN IF Mine = {} THEN c.centroids[v]
     ELSE [x |-> (sx * S) \div Cardinality(Mine), y |-> (sy * S) \div Cardinality(Mine)]

\* Math.abs(nx - centroids[c].x) > 0.0001 || ..., a grid step being 0.0003
\* degrees: more than a third of a step
Moved(c, a) ==
  \E v \in DOMAIN c.vehicleCapacities :
    \/ 3 * Abs(NewCentroid(c, a, v).x - c.centroids[v].x) > CentroidScale(Len(c.pts))
    \/ 3 * Abs(NewCentroid(c, a, v).y - c.centroids[v].y) > CentroidScale(Len(c.pts))

\* The state before the first round (routing.ts 232-251)
ClusterStart(points, vehicleCapacities) ==
  LET pts == SortByLoad(points)
  IN [points |-> points,
      vehicleCapacities |-> vehicleCapacities,
      pts |-> pts,
      centroids |-> InitialCentroids(pts, Cardinality(DOMAIN vehicleCapacities)),
      assignments |-> [i \in 0..Len(pts) - 1 |-> 0],
      vehicleLoads |-> [v \in DOMAIN vehicleCapacities |-> 0],
      unassigned |-> <<>>,
      iter |-> 0,
      pc |-> "loop"]

\* The mutant: the loop goes on after a round in which no centroid moved.
ClusterRoundNoBreak(c) ==
  LET r == AssignRound(c)
  IN [c EXCEPT !.assignments = r.temp,
               !.vehicleLoads = r.loads,
               !.unassigned = r.unassigned,
               !.centroids = [v \in DOMAIN c.centroids |-> NewCentroid(c, r.temp, v)],
               !.iter = @ + 1,
               !.pc = IF c.iter + 1 >= 20 THEN "built" ELSE "loop"]

\* One round of the loop: the state after it, the loop left when no centroid
\* moved or the last round is over (`unassigned` is kept to be looked at)
ClusterRound(c) ==
  LET r == AssignRound(c)
      moved == Moved(c, r.temp)
  IN [c EXCEPT !.assignments = r.temp,
               !.vehicleLoads = r.loads,
               !.unassigned = r.unassigned,
               !.centroids = [v \in DOMAIN c.centroids |-> NewCentroid(c, r.temp, v)],
               !.iter = IF moved THEN @ + 1 ELSE @,
               !.pc = IF ~moved \/ c.iter + 1 >= 20 THEN "built" ELSE "loop"]

\* vehicleAssignments (routing.ts 334-341): the stops of vehicle v in the
\* order of pts, each looked up in `points` by its id
VehicleAssignment(c, v) ==
  LET Pick(i) == c.points[CHOOSE j \in 1..Len(c.points) :
                            /\ c.points[j].id = c.pts[i].id
                            /\ \A m \in 1..j - 1 : c.points[m].id # c.pts[i].id]
      F[i \in 0..Len(c.pts)] ==
        IF i = 0 THEN <<>>
        ELSE IF c.assignments[i - 1] = v THEN Append(F[i - 1], Pick(i)) ELSE F[i - 1]
  IN F[Len(c.pts)]

ClusterInit ==
  /\ \E n \in 1..MaxStops : \E points \in StopLists(n) : \E caps \in CapacityLists :
       cl = ClusterStart(points, caps)
  /\ aco = Idle /\ tabu = Idle /\ rt = Idle /\ fl = Idle /\ search = Idle

ClusterStep ==
  /\ cl.pc = "loop"
  /\ cl' = ClusterRound(cl)
  /\ UNCHANGED <<aco, tabu, rt, fl, search>>

ClusterNext == ClusterStep

SpecCluster == ClusterInit /\ [][ClusterNext]_vars

\* The stops the final assignment gives vehicle v, as indices into pts
StopsOf(v) == {i \in 0..Len(cl.pts) - 1 : cl.assignments[i] = v}

\* The sum of the loads of the stops (indices into pts) in S
LoadOf(S) == SumOver(S, [i \in S |-> cl.pts[i + 1].loadMeters])

\* C3: when the clustering loop has ended, every stop is assigned to exactly
\* one vehicle, vehicleLoads[c] is the sum of the demands of the stops
\* assigned to c in the final assignment, and the loads add up to the sum of
\* all demands.
C3_LoadsMatchAssignment ==
  cl.pc = "built" =>
    /\ \A i \in 0..Len(cl.pts) - 1 : cl.assignments[i] \in DOMAIN cl.vehicleCapacities
    /\ \A p \in Range(cl.points) :
         Cardinality({<<v, j>> \in (DOMAIN cl.vehicleCapacities) \X (1..Len(cl.points)) :
                        /\ j <= Len(VehicleAssignment(cl, v))
                        /\ VehicleAssignment(cl, v)[j] = p}) = 1
    /\ \A v \in DOMAIN cl.vehicleCapacities : cl.vehicleLoads[v] = LoadOf(StopsOf(v))
    /\ SumOver(DOMAIN cl.vehicleCapacities, cl.vehicleLoads)
         = SumOver(1..Len(cl.points), [j \in 1..Len(cl.points) |-> cl.points[j].loadMeters])

\* C3 witness: the loop ended after more than one round, with two vehicles
\* loaded and a stop force-assigned in the final round
C3_Witness ==
  /\ cl.pc = "built"
  /\ cl.iter >= 1
  /\ cl.unassigned # <<>>
  /\ \A v \in DOMAIN cl.vehicleCapacities : cl.vehicleLoads[v] > 0
  /\ Cardinality(DOMAIN cl.vehicleCapacities) = 2

\* "Check voor overbelading" of pages/home.tsx
overloaded(vehicleLoads, vehicleCapacities) ==
  \E v \in DOMAIN vehicleLoads : vehicleLoads[v] > vehicleCapacities[v]

\* C13: with one vehicle whose capacity is the sum of the demands of all
\* stops, no round of the clustering defers a stop to the forced pass, the
\* load of the vehicle never exceeds its capacity, and the loop ends with the
\* load equal to the capacity: no overload is reported.
C13_ExactCapacityNoOverflow ==
  (/\ DOMAIN cl.vehicleCapacities = {0}
   /\ cl.vehicleCapacities[0]
        = SumOver(1..Len(cl.points), [j \in 1..Len(cl.points) |-> cl.points[j].loadMeters])) =>
    /\ cl.unassigned = <<>>
    /\ ~overloaded(cl.vehicleLoads, cl.vehicleCapacities)
    /\ cl.pc = "built" => cl.vehicleLoads[0] = cl.vehicleCapacities[0]

\* The loop ended for two or more stops with a load each and one vehicle filled to
\* its capacity
C13_Witness ==
  /\ cl.pc = "built"
  /\ DOMAIN cl.vehicleCapacities = {0}
  /\ Len(cl.points) >= 2
  /\ \A j \in 1..Len(cl.points) : cl.points[j].loadMeters > 0
  /\ cl.vehicleLoads[0] = cl.vehicleCapacities[0]
  /\ cl.unassigned = <<>>

\* The load vehicle v has accumulated in the first pass of a round when stop
\* i is processed: the demands of the earlier stops of pts the pass gave to v
\* (temp and unassigned as the round left them)
FirstPassLoad(c, temp, unassigned, i, v) ==
  LET S == {j \in 0..i - 1 : temp[j] = v /\ j \notin Range(unassigned)}
  IN SumOver(S, [j \in S |-> c.pts[j + 1].loadMeters])

\* C25: in the first pass of every clustering round a stop that is not
\* deferred goes to a vehicle whose capacity minus the load accumulated so far
\* in the round is at least the stop's demand, no vehicle with such room has a
\* nearer centroid, and the load stays within the capacity; a deferred stop
\* fits no vehicle at the moment it is processed.
C25_FirstPassNearestWithRoom ==
  [][cl.pc = "loop" =>
       \A i \in 0..Len(cl.pts) - 1 :
         \A demand \in {cl.pts[i + 1].loadMeters} :
           \A accumulated \in {[v \in DOMAIN cl.vehicleCapacities |->
                                  FirstPassLoad(cl, cl'.assignments, cl'.unassigned, i, v)]} :
             IF i \in Range(cl'.unassigned)
             THEN \A v \in DOMAIN cl.vehicleCapacities :
                    cl.vehicleCapacities[v] - accumulated[v] < demand
             ELSE \A best \in {cl'.assignments[i]} :
                    /\ cl.vehicleCapacities[best] - accumulated[best] >= demand
                    /\ accumulated[best] + demand <= cl.vehicleCapacities[best]
                    /\ \A v \in DOMAIN cl.vehicleCapacities :
                         cl.vehicleCapacities[v] - accumulated[v] >= demand
                           => SquaredDistance(cl, i, best) <= SquaredDistance(cl, i, v)]_vars

\* A round over two vehicles deferred a stop and, in its first pass, gave a
\* stop to each vehicle
C25_Witness ==
  /\ cl.pc \in {"loop", "built"}
  /\ cl.iter >= 1
  /\ DOMAIN cl.vehicleCapacities = {0, 1}
  /\ cl.unassigned # <<>>
  /\ \A v \in {0, 1} :
       \E i \in 0..Len(cl.pts) - 1 :
         cl.assignments[i] = v /\ i \notin Range(cl.unassigned)

\* The load of vehicle v when the j-th deferred stop of a round is force-
\* assigned: what the first pass gave it, and the deferred stops before the j-th
ForcedPassLoad(c, temp, unassigned, j, v) ==
  LET S == {i \in 0..Len(c.pts) - 1 :
              /\ temp[i] = v
              /\ \A m \in j..Len(unassigned) : unassigned[m] # i}
  IN SumOver(S, [i \in S |-> c.pts[i + 1].loadMeters])

\* C26: after the first pass of a round, each deferred stop goes to a vehicle
\* whose capacity minus current load (earlier forced assignments of the round
\* included) is the greatest at that moment, and the loads after the round
\* hold its demand.
C26_ForcedToMostRemaining ==
  [][cl.pc = "loop" =>
       /\ \A j \in 1..Len(cl'.unassigned) :
            \A current \in {[v \in DOMAIN cl.vehicleCapacities |->
                               ForcedPassLoad(cl, cl'.assignments, cl'.unassigned, j, v)]} :
              \A bestVehicle \in {cl'.assignments[cl'.unassigned[j]]} :
                \A v \in DOMAIN cl.vehicleCapacities :
                  cl.vehicleCapacities[bestVehicle] - current[bestVehicle]
                    >= cl.vehicleCapacities[v] - current[v]
       /\ \A v \in DOMAIN cl.vehicleCapacities :
            cl'.vehicleLoads[v]
              = ForcedPassLoad(cl, cl'.assignments, cl'.unassigned,
                               Len(cl'.unassigned) + 1, v)]_vars

\* A round deferred two stops with a demand and forced them onto different
\* vehicles
C26_Witness ==
  /\ cl.pc \in {"loop", "built"}
  /\ cl.iter >= 1
  /\ Len(cl.unassigned) >= 2
  /\ cl.assignments[cl.unassigned[1]] # cl.assignments[cl.unassigned[2]]
  /\ \A j \in 1..2 : cl.pts[cl.unassigned[j] + 1].loadMeters > 0

\* C27: when the clustering loop of calculateOptimalRoutesWithCapacity has
\* ended, the load it reports for a vehicle exceeds the capacity of the vehicle
\* if and only if a stop was force-assigned to the vehicle in the final round;
\* a vehicle with first-pass assignments only has a load within its capacity.
C27_OverloadIffForced ==
  cl.pc = "built" =>
    LET ForcedVehicles == {cl.assignments[cl.unassigned[j]] : j \in 1..Len(cl.unassigned)}
    IN
    \A v \in DOMAIN cl.vehicleCapacities :
      /\ cl.vehicleLoads[v] > cl.vehicleCapacities[v] <=> v \in ForcedVehicles
      /\ v \notin ForcedVehicles => cl.vehicleLoads[v] <= cl.vehicleCapacities[v]

\* The loop ended with one vehicle overloaded by a forced stop and the other
\* loaded within its capacity by the first pass
C27_Witness ==
  /\ cl.pc = "built"
  /\ DOMAIN cl.vehicleCapacities = {0, 1}
  /\ \E forced \in {0, 1} :
       /\ \E j \in 1..Len(cl.unassigned) : cl.assignments[cl.unassigned[j]] = forced
       /\ \A j \in 1..Len(cl.unassigned) : cl.assignments[cl.unassigned[j]] = forced
  /\ \E v \in {0, 1} :
       /\ \A j \in 1..Len(cl.unassigned) : cl.assignments[cl.unassigned[j]] # v
       /\ cl.vehicleLoads[v] > 0
       /\ cl.vehicleLoads[v] <= cl.vehicleCapacities[v]
  /\ \E i \in 1..Len(cl.points) : cl.points[i].loadMeters = 0

----------------------------------------------------------------------------
(* optimizeRouteACOTabu (aco-routing.ts 308-344), optimizeRouteOrder and     *)
(* calculateOptimalRoute (routing.ts 18-85, 382-443)                        *)

\* startEndPoint / startPoint left undefined
NoPoint == [id |-> -1, x |-> 0, y |-> 0, loadMeters |-> 0]

\* START_END_LOCATION of pages/home.tsx, on the grid
START_END_LOCATION == MkPoint(0, <<2, 1>>, 0)

\* points.filter(p => p.id !== startPoint.id)
OtherPoints(points, startPoint) ==
  LET F[i \in 0..Len(points)] ==
        IF i = 0 THEN <<>>
        ELSE IF points[i].id # startPoint.id THEN Append(F[i - 1], points[i]) ELSE F[i - 1]
  IN F[Len(points)]

\* allPoints of optimizeRouteACOTabu
AllPoints(points, startPoint) ==
  IF startPoint # NoPoint THEN <<startPoint>> \o OtherPoints(points, startPoint) ELSE points

\* finalSolution.slice(0, -1).map(idx => allPoints[idx])
IndicesToPoints(allPoints, finalSolution) ==
  CHOOSE optimizedPoints \in {[i \in 1..Len(solution) - 1 |-> allPoints[solution[i] + 1]] :
                                solution \in {finalSolution}} : TRUE

\* optimizeRouteACOTabu, `pick` being the tour AntColonyOptimizer.optimize
\* returns on the draws of this call (any tour over allPoints, by C1)
optimizeRouteACOTabu(points, startPoint, pick) ==
  IF Len(points) = 0 THEN <<>>
  ELSE IF Len(points) = 1 THEN points
  ELSE IndicesToPoints(AllPoints(points, startPoint),
                       TabuOptimize(AllPoints(points, startPoint), pick))

\* optimizeRouteOrder
optimizeRouteOrder(points, startPoint, pick) ==
  IF Len(points) = 0 THEN <<>>
  ELSE IF Len(points) = 1 THEN points
  ELSE optimizeRouteACOTabu(points, startPoint, pick)

\* The number of points the optimizer of a call of calculateOptimalRoute is
\* built on; 0 when the call builds none
OptimizerSize(points, startEndPoint) ==
  LET given == IF startEndPoint # NoPoint THEN OtherPoints(points, startEndPoint) ELSE points
  IN IF Len(given) < 2 THEN 0
     ELSE Len(AllPoints(given, startEndPoint))

\* The tours the optimizer of a call can return: the random draws of the call
Picks(points, startEndPoint) ==
  IF OptimizerSize(points, startEndPoint) = 0 THEN {<<>>}
  ELSE Tours(OptimizerSize(points, startEndPoint))

\* The mutant: a stop is enough without a depot.
InsufficientInputBelowOne(points, startEndPoint) ==
  Len(points) < 1 /\ startEndPoint = NoPoint

\* points.length < 2 && !startEndPoint
InsufficientInput(points, startEndPoint) ==
  Len(points) < 2 /\ startEndPoint = NoPoint

\* routePoints (routing.ts 26-34)
RoutePoints(points, startEndPoint, pick) ==
  IF startEndPoint # NoPoint
  THEN <<startEndPoint>>
         \o optimizeRouteOrder(OtherPoints(points, startEndPoint), startEndPoint, pick)
         \o <<startEndPoint>>
  ELSE optimizeRouteOrder(points, NoPoint, pick)

\* What fetch and response.json() give calculateRoadRoute for from -> to: a
\* failed request, an answer without routes, or one route (metres, seconds, a
\* GeoJSON line of [lon, lat] pairs) some metres longer than the straight line
Responses(from, to) ==
  {[ok |-> FALSE, routes |-> <<>>],
   [ok |-> TRUE, routes |-> <<>>],
   [ok |-> TRUE,
    routes |-> <<[distance |-> 10 * (calculateDistance(from, to) + 2),
                  duration |-> 7 * (calculateDistance(from, to) + 2),
                  coordinates |-> <<<<from.x, from.y>>, <<to.x, to.y>>>>]>>]}

\* calculateRoadRoute: thrown, or the first route with its distance / 1000 (in
\* distance units: metres / 10) and its coordinates turned to [lat, lon]
calculateRoadRoute(response) ==
  IF ~response.ok \/ Len(response.routes) = 0 THEN [thrown |-> TRUE]
  ELSE LET route == response.routes[1]
       IN [thrown |-> FALSE,
           distance |-> route.distance \div 10,
           duration |-> route.duration,
           coordinates |-> [i \in 1..Len(route.coordinates) |->
                              <<route.coordinates[i][2], route.coordinates[i][1]>>]]

\* The segment of the catch branch: the straight line
StraightSegment(from, to) ==
  [distance |-> calculateDistance(from, to),
   duration |-> (calculateDistance(from, to) * 60) \div 60,
   coordinates |-> <<<<from.y, from.x>>, <<to.y, to.x>>>>]

\* The segment of the try branch
RoadSegment(routeData) ==
  [distance |-> routeData.distance,
   duration |-> routeData.duration,
   coordinates |-> routeData.coordinates]

\* The mutant: a failed lookup ends the loop with the route so far.
SegmentStepAbort(r, response) ==
  LET from == r.routePoints[r.i + 1]
      to == r.routePoints[r.i + 2]
      routeData == calculateRoadRoute(response)
      call == [from |-> from, to |-> to, response |-> response]
  IN IF routeData.thrown
     THEN [r EXCEPT !.calls = Append(@, call), !.i = Len(r.routePoints)]
     ELSE [r EXCEPT !.calls = Append(@, call),
                    !.segments = Append(@, RoadSegment(routeData)),
                    !.geometry = Append(@, routeData.coordinates),
                    !.totalDistance = @ + routeData.distance,
                    !.totalDuration = @ + routeData.duration,
                    !.i = @ + 1]

\* The mutant: a failed lookup drops the stop that could not be reached.
SegmentStepDropStop(r, response) ==
  LET from == r.routePoints[r.i + 1]
      to == r.routePoints[r.i + 2]
      routeData == calculateRoadRoute(response)
      call == [from |-> from, to |-> to, response |-> response]
  IN IF routeData.thrown
     THEN [r EXCEPT !.calls = Append(@, call),
                    !.routePoints = SubSeq(@, 1, r.i + 1) \o SubSeq(@, r.i + 3, Len(@))]
     ELSE [r EXCEPT !.calls = Append(@, call),
                    !.segments = Append(@, RoadSegment(routeData)),
                    !.geometry = Append(@, routeData.coordinates),
                    !.totalDistance = @ + routeData.distance,
                    !.totalDuration = @ + routeData.duration,
                    !.i = @ + 1]

\* One turn of the segment loop on the response the lookup gets
SegmentStep(r, response) ==
  LET from == r.routePoints[r.i + 1]
      to == r.routePoints[r.i + 2]
      routeData == calculateRoadRoute(response)
      segment == IF routeData.thrown THEN StraightSegment(from, to) ELSE RoadSegment(routeData)
  IN [r EXCEPT !.calls = Append(@, [from |-> from, to |-> to, response |-> response]),
               !.segments = Append(@, segment),
               !.geometry = Append(@, segment.coordinates),
               !.totalDistance = @ + segment.distance,
               !.totalDuration = @ + segment.duration,
               !.i = @ + 1]

\* A call of calculateOptimalRoute(points, startEndPoint); `calls` lists the
\* lookups issued so far
RouteStart(points, startEndPoint, pick) ==
  [points |-> points, startEndPoint |-> startEndPoint, pick |-> pick,
   routePoints |-> <<>>, i |-> 0, calls |-> <<>>,
   segments |-> <<>>, geometry |-> <<>>, totalDistance |-> 0, totalDuration |-> 0,
   pc |-> "called", error |-> "", result |-> <<>>]

\* The RouteResult returned from the state r (routing.ts 78-84)
RouteResult(r) ==
  [route |-> r.routePoints,
   totalDistance |-> r.totalDistance,
   totalDuration |-> r.totalDuration,
   segments |-> r.segments,
   geometry |-> r.geometry]

\* The stop lists of a call: none, or up to MaxStops stops without load
RouteStops == {<<>>} \cup UNION {PointLists(n) : n \in 1..MaxStops}

\* The depot of a call: none, START_END_LOCATION, or a point that is also
\* among the stops
RouteDepots(points) ==
  {NoPoint, START_END_LOCATION} \cup (IF points = <<>> THEN {} ELSE {points[1]})

RouteInit ==
  /\ \E points \in RouteStops : \E startEndPoint \in RouteDepots(points) :
       \E pick \in Picks(points, startEndPoint) :
         rt = RouteStart(points, startEndPoint, pick)
  /\ aco = Idle /\ tabu = Idle /\ cl = Idle /\ fl = Idle /\ search = Idle

\* routing.ts 22-24
RouteReject ==
  /\ rt.pc = "called"
  /\ InsufficientInput(rt.points, rt.startEndPoint)
  /\ rt' = [rt EXCEPT !.pc = "error", !.error = "Minimaal 2 punten nodig"]
  /\ UNCHANGED <<aco, tabu, cl, fl, search>>

\* routing.ts 26-39
RouteOrder ==
  /\ rt.pc = "called"
  /\ ~InsufficientInput(rt.points, rt.startEndPoint)
  /\ rt' = [rt EXCEPT !.pc = "lookups",
                      !.routePoints = RoutePoints(rt.points, rt.startEndPoint, rt.pick)]
  /\ UNCHANGED <<aco, tabu, cl, fl, search>>

\* routing.ts 41-76, one turn
RouteLookup ==
  /\ rt.pc = "lookups"
  /\ rt.i < Len(rt.routePoints) - 1
  /\ \E response \in Responses(rt.routePoints[rt.i + 1], rt.routePoints[rt.i + 2]) :
       rt' = SegmentStep(rt, response)
  /\ UNCHANGED <<aco, tabu, cl, fl, search>>

\* routing.ts 78-84
RouteReturn ==
  /\ rt.pc = "lookups"
  /\ ~(rt.i < Len(rt.routePoints) - 1)
  /\ rt' = [rt EXCEPT !.pc = "done", !.result = RouteResult(rt)]
  /\ UNCHANGED <<aco, tabu, cl, fl, search>>

RouteNext == RouteReject \/ RouteOrder \/ RouteLookup \/ RouteReturn

SpecRoute == RouteInit /\ [][RouteNext]_vars

\* C7 as stated: calculateOptimalRoute fails only when the stop list is
\* empty and no depot is given.
C7_FailsOnlyWhenEmpty ==
  rt.pc = "error" => Len(rt.points) = 0 /\ rt.startEndPoint = NoPoint

\* C7: calculateOptimalRoute fails, with 'Minimaal 2 punten nodig', exactly
\* when fewer than two stops are given and no depot: a call with such an input
\* never gets to order a route, a call with any other input never fails, and
\* its segment loop ends with the route.
C7_FailsExactlyBelowTwoWithoutDepot ==
  LET few == Len(rt.points) < 2 /\ rt.startEndPoint = NoPoint
  IN /\ rt.pc = "error" => few /\ rt.error = "Minimaal 2 punten nodig"
     /\ rt.pc \in {"lookups", "done"} =>
          /\ ~few
          /\ rt.error = ""
          /\ Len(rt.routePoints) >= 2
          /\ rt.i <= Len(rt.routePoints) - 1
     /\ rt.pc = "done" => rt.i = Len(rt.routePoints) - 1

C7_Witness ==
  /\ rt.pc = "error"
  /\ Len(rt.points) = 1
  /\ rt.startEndPoint = NoPoint

\* The segment the claim gives a lookup: its result when it succeeded, the
\* straight line from its `from` to its `to` otherwise
SegmentOf(call) ==
  IF call.response.ok /\ Len(call.response.routes) > 0
  THEN [distance |-> call.response.routes[1].distance \div 10,
        duration |-> call.response.routes[1].duration,
        coordinates |-> [k \in 1..Len(call.response.routes[1].coordinates) |->
                           <<call.response.routes[1].coordinates[k][2],
                             call.response.routes[1].coordinates[k][1]>>]]
  ELSE [distance |-> calculateDistance(call.from, call.to),
        duration |-> calculateDistance(call.from, call.to),
        coordinates |-> <<<<call.from.y, call.from.x>>, <<call.to.y, call.to.x>>>>]

\* C8: whatever the lookups answer, the call has no error; lookup j is issued
\* for the edge (route[j], route[j+1]); segment j is the result of lookup j
\* when it succeeded and the straight line otherwise, whatever the other
\* lookups did; the totals are the sums over the segments; and the call
\* returns exactly route.length - 1 segments.
C8_FallbackIsLocal ==
  rt.pc \in {"lookups", "done"} =>
    /\ rt.error = ""
    /\ Len(rt.calls) = rt.i /\ Len(rt.segments) = rt.i /\ Len(rt.geometry) = rt.i
    /\ \A j \in 1..rt.i :
         /\ rt.calls[j].from = rt.routePoints[j]
         /\ rt.calls[j].to = rt.routePoints[j + 1]
         /\ rt.segments[j] = SegmentOf(rt.calls[j])
         /\ rt.geometry[j] = rt.segments[j].coordinates
    /\ rt.totalDistance = SumOver(1..rt.i, [j \in 1..rt.i |-> rt.segments[j].distance])
    /\ rt.totalDuration = SumOver(1..rt.i, [j \in 1..rt.i |-> rt.segments[j].duration])
    /\ rt.pc = "done" =>
         /\ Len(rt.result.segments) = Len(rt.result.route) - 1
         /\ rt.result.segments = rt.segments
         /\ rt.result.totalDistance = rt.totalDistance
         /\ rt.result.totalDuration = rt.totalDuration

\* A call returned after a failed lookup between two successful ones
C8_Witness ==
  /\ rt.pc = "done"
  /\ Len(rt.calls) >= 3
  /\ rt.calls[1].response.ok /\ Len(rt.calls[1].response.routes) > 0
  /\ ~rt.calls[2].response.ok
  /\ rt.calls[3].response.ok /\ Len(rt.calls[3].response.routes) > 0
  /\ rt.segments[2].distance > 0
  /\ rt.segments[3].distance > rt.segments[2].distance

\* C9: no lookup is issued before the order is fixed, and from the first
\* lookup to the return the route is the order computed from the stops, the
\* depot and the draws alone, whatever the lookups answered.
C9_OrderFixedBeforeLookups ==
  /\ rt.pc \in {"called", "error"} => rt.calls = <<>>
  /\ rt.pc \in {"lookups", "done"} =>
       \A order \in {RoutePoints(rt.points, rt.startEndPoint, rt.pick)} :
         /\ rt.routePoints = order
         /\ rt.pc = "done" => rt.result.route = order

\* A call of three stops returned after a failed and a successful lookup,
\* with an order that is not the order of the input
C9_Witness ==
  /\ rt.pc = "done"
  /\ rt.startEndPoint = NoPoint
  /\ Len(rt.points) = 3
  /\ rt.result.route # rt.points
  /\ \E j \in 1..Len(rt.calls) : ~rt.calls[j].response.ok
  /\ \E j \in 1..Len(rt.calls) : rt.calls[j].response.ok

\* C16 as stated: the route calculateOptimalRoute returns for a depot d
\* begins with d, ends with d, holds d at no other position, holds every stop
\* other than d exactly once, and has (stops other than d) + 2 entries.
C16_DepotOnlyAtBothEnds ==
  (rt.pc = "done" /\ rt.startEndPoint # NoPoint) =>
    LET RoutePositions(route, id) == {j \in 1..Len(route) : route[j].id = id}
    IN
    \A route \in {rt.result.route} : \A d \in {rt.startEndPoint} :
      \A others \in {OtherPoints(rt.points, d)} :
        /\ route[1] = d
        /\ route[Len(route)] = d
        /\ RoutePositions(route, d.id) = {1, Len(route)}
        /\ \A j \in 1..Len(others) :
             Cardinality(RoutePositions(route, others[j].id)) = 1
        /\ Len(route) = Len(others) + 2

----------------------------------------------------------------------------
(* optimizeRouteACOTabu step by step: the optimizers it builds run in aco  *)
(* and tabu, its own position and result are in rt                         *)

\* The mutant: only the empty list returns before the optimizers are built.
OrderDegenerateEmptyOnly(points) == Len(points) = 0

\* aco-routing.ts 309-310: the two early returns
OrderDegenerate(points) == Len(points) = 0 \/ Len(points) = 1

OrderStart(points, startPoint) ==
  [points |-> points, startPoint |-> startPoint, pc |-> "called", result |-> <<>>]

OrderInit ==
  /\ \E points \in RouteStops : \E startPoint \in {NoPoint, START_END_LOCATION} :
       rt = OrderStart(points, startPoint)
  /\ aco = Idle /\ tabu = Idle /\ cl = Idle /\ fl = Idle /\ search = Idle

\* "if (points.length === 0) return []; if (points.length === 1) return points"
OrderReturnDegenerate ==
  /\ rt.pc = "called"
  /\ OrderDegenerate(rt.points)
  /\ rt' = [rt EXCEPT !.pc = "done",
                      !.result = IF Len(rt.points) = 0 THEN <<>> ELSE rt.points]
  /\ UNCHANGED <<aco, tabu, cl, fl, search>>

\* new AntColonyOptimizer(allPoints)
OrderBuildAco ==
  /\ rt.pc = "called"
  /\ ~OrderDegenerate(rt.points)
  /\ rt' = [rt EXCEPT !.pc = "aco"]
  /\ aco' = AcoStart(AllPoints(rt.points, rt.startPoint))
  /\ UNCHANGED <<tabu, cl, fl, search>>

\* new TabuSearch(allPoints), at the top of tabu.optimize(acoSolution)
OrderBuildTabu ==
  /\ rt.pc = "aco"
  /\ aco.pc = "done"
  /\ rt' = [rt EXCEPT !.pc = "tabu"]
  /\ tabu' = TabuStart(AllPoints(rt.points, rt.startPoint), aco.result)
  /\ UNCHANGED <<aco, cl, fl, search>>

\* aco-routing.ts 341-343
OrderReturn ==
  /\ rt.pc = "tabu"
  /\ tabu.pc = "done"
  /\ rt' = [rt EXCEPT !.pc = "done",
                      !.result = IndicesToPoints(AllPoints(rt.points, rt.startPoint),
                                                 tabu.result)]
  /\ UNCHANGED <<aco, tabu, cl, fl, search>>

OrderNext ==
  \/ OrderReturnDegenerate \/ OrderBuildAco \/ OrderBuildTabu \/ OrderReturn
  \/ AcoSelectCity \/ AcoCloseTour \/ AcoUpdatePheromones \/ AcoReturn
  \/ TabuIterate \/ TabuBreak \/ TabuReturn

SpecOrder == OrderInit /\ [][OrderNext]_vars

\* C28: optimizeRouteACOTabu returns the empty list for no stops and the list
\* of the one stop for one stop, and for these inputs no optimizer is ever
\* built: no ant is constructed, no pheromone updated, no Tabu iteration made.
C28_DegenerateWithoutOptimizer ==
  (rt.pc \in {"called", "aco", "tabu", "done"} /\ Len(rt.points) <= 1) =>
    /\ aco = Idle /\ tabu = Idle
    /\ rt.pc \in {"called", "done"}
    /\ rt.pc = "done" =>
         /\ Len(rt.points) = 0 => rt.result = <<>>
         /\ Len(rt.points) = 1 => rt.result = <<rt.points[1]>>

\* The call for one stop and a depot has returned
C28_Witness ==
  /\ rt.pc = "done"
  /\ Len(rt.points) = 1
  /\ rt.startPoint # NoPoint
  /\ Len(rt.result) = 1

----------------------------------------------------------------------------
(* The three loops with an iteration budget, each run to its end           *)

BudgetInit == AcoInit \/ TabuInit \/ ClusterInit

BudgetNext ==
  \/ AcoSelectCity \/ AcoCloseTour \/ AcoUpdatePheromones \/ AcoReturn
  \/ TabuIterate \/ TabuBreak \/ TabuReturn
  \/ ClusterStep

SpecBudget == BudgetInit /\ [][BudgetNext]_vars

\* The steps the running call has left at most: per ant n - 1 selections and
\* the closing of its tour, per round the pheromone update, and the return
StepsLeft ==
  IF aco.pc = "run"
  THEN 1 + (aco.config.numIterations - aco.iteration)
             * (aco.config.numAnts * Len(aco.points) + 1)
         - (aco.k * Len(aco.points) + Len(aco.tour) - 1)
  ELSE IF tabu.pc = "run" THEN 1 + tabu.config.maxIterations - tabu.iteration
  ELSE IF cl.pc = "loop" THEN 20 - cl.iter
  ELSE 0

\* A centroid coordinate of the round just made differs by more than 0.0001
\* (a third of a grid step) from the one before
CentroidMoved ==
  \E v \in DOMAIN cl.centroids :
    \/ 3 * Abs(cl'.centroids[v].x - cl.centroids[v].x) > CentroidScale(Len(cl.pts))
    \/ 3 * Abs(cl'.centroids[v].y - cl.centroids[v].y) > CentroidScale(Len(cl.pts))

\* C24: every optimization call returns within its budget: the steps a call
\* has left are never negative and every step leaves it fewer.  optimize() of
\* AntColonyOptimizer has constructed iteration * numAnts + k tours at any
\* moment and numIterations * numAnts at its return, each tour made of n - 1
\* selections between its two depot ends; TabuSearch.optimize has made at most
\* maxIterations = min(200, 3n) iterations; the clustering loop begins a round
\* only after fewer than 20 rounds, and a round ends the loop exactly when it
\* moved no centroid coordinate by more than 0.0001 or was the 20th.
C24_WithinBudget ==
  /\ [](aco.pc \in {"run", "done"} =>
          /\ aco.iteration <= aco.config.numIterations
          /\ aco.k <= aco.config.numAnts
          /\ aco.iteration = aco.config.numIterations => aco.k = 0
          /\ Len(aco.constructed) = aco.iteration * aco.config.numAnts + aco.k
          /\ Len(aco.tour) - 1 <= Len(aco.points) - 1
          /\ \A j \in 1..Len(aco.constructed) :
               Len(aco.constructed[j].tour) - 2 = Len(aco.points) - 1
          /\ aco.pc = "done" =>
               Len(aco.constructed) = aco.config.numIterations * aco.config.numAnts)
  /\ [](tabu.pc \in {"run", "done"} =>
          /\ tabu.config.maxIterations = Min(200, 3 * Len(tabu.points))
          /\ tabu.iteration <= tabu.config.maxIterations
          /\ Len(tabu.applied) = tabu.iteration)
  /\ [](/\ cl.pc = "loop" => cl.iter < 20
        /\ cl.pc = "built" => cl.iter <= 20)
  /\ [][cl.pc = "loop" =>
          /\ cl'.pc = "built" <=> (~CentroidMoved \/ cl.iter + 1 >= 20)
          /\ cl'.pc = "loop" => cl'.iter = cl.iter + 1]_vars
  /\ [](StepsLeft >= 0)
  /\ [][StepsLeft' < StepsLeft]_vars

\* optimize() of AntColonyOptimizer has returned after the full budget of
\* tours over three or more points
C24_Witness ==
  /\ aco.pc = "done"
  /\ Len(aco.points) >= 3
  /\ aco.config.numIterations >= 2 /\ aco.config.numAnts >= 2
  /\ Len(aco.constructed) = aco.config.numIterations * aco.config.numAnts

----------------------------------------------------------------------------
(* calculateOptimalRoute as one call, and the two multi-vehicle entry       *)
(* points calculateOptimalRoutes (routing.ts 97-211) and                    *)
(* calculateOptimalRoutesWithCapacity (routing.ts 213-380)                  *)

\* The routing service during one call of an entry point: it answers every
\* request, none, or only those from a stop to a stop of a greater id
Networks == {"up", "down", "oneway"}

\* The response of the service to the lookup from -> to
Answer(net, from, to) ==
  CHOOSE response \in Responses(from, to) :
    IF net = "up" \/ (net = "oneway" /\ from.id < to.id)
    THEN response.ok /\ Len(response.routes) > 0
    ELSE IF net = "down" THEN ~response.ok
    ELSE response.ok /\ Len(response.routes) = 0

\* The segment loop of calculateOptimalRoute, run to its end
RECURSIVE RouteRun(_, _)
RouteRun(r, net) ==
  IF r.i < Len(r.routePoints) - 1
  THEN RouteRun(SegmentStep(r, Answer(net, r.routePoints[r.i + 1], r.routePoints[r.i + 2])), net)
  ELSE r

\* What a call that left its segment loop in the state r gives its caller
RouteOutcome(r) == [thrown |-> FALSE, lookups |-> Len(r.calls), result |-> RouteResult(r)]

\* calculateOptimalRoute(points, startEndPoint) on the draws `pick` and the
\* service `net`: thrown, or the RouteResult with the lookups it issued
calculateOptimalRoute(points, startEndPoint, pick, net) ==
  IF InsufficientInput(points, startEndPoint)
  THEN [thrown |-> TRUE, error |-> "Minimaal 2 punten nodig"]
  ELSE RouteOutcome(RouteRun([RouteStart(points, startEndPoint, pick) EXCEPT
                                !.routePoints = RoutePoints(points, startEndPoint, pick)],
                             net))

\* The route pushed for a vehicle without stops
EmptyRoute ==
  [route |-> <<>>, totalDistance |-> 0, totalDuration |-> 0,
   segments |-> <<>>, geometry |-> <<>>]

\* k of calculateOptimalRoutes: Math.max(1, Math.floor(vehicleCount || 1))
ClampVehicleCount(vehicleCount) == Max(1, vehicleCount)

\* The centroids before the first round of the k-means of
\* calculateOptimalRoutes: the first min(k, n) stops
KMeansCentroids(points, k) ==
  [c \in 0..Min(k, Len(points)) - 1 |->
     [x |-> points[c + 1].x * CentroidScale(Len(points)),
      y |-> points[c + 1].y * CentroidScale(Len(points))]]

\* The "assign" loop: every stop to the first of its nearest centroids
KMeansAssign(points, centroids) ==
  LET S == CentroidScale(Len(points))
      D(i, c) == (points[i + 1].x * S - centroids[c].x) * (points[i + 1].x * S - centroids[c].x)
                 + (points[i + 1].y * S - centroids[c].y) * (points[i + 1].y * S - centroids[c].y)
  IN [i \in 0..Len(points) - 1 |->
        CHOOSE c \in DOMAIN centroids :
          /\ \A o \in DOMAIN centroids : D(i, c) <= D(i, o)
          /\ \A o \in DOMAIN centroids : o < c => D(i, c) < D(i, o)]

\* The "update centroids" loop: the mean of the stops of a centroid, a
\* centroid without stops left alone
KMeansUpdate(points, centroids, assignments) ==
  [c \in DOMAIN centroids |->
     LET Mine == {i \in 0..Len(points) - 1 : assignments[i] = c}
         sx == SumOver(Mine, [i \in Mine |-> points[i + 1].x])
         sy == SumOver(Mine, [i \in Mine |-> points[i + 1].y])
     IN IF Mine = {} THEN centroids[c]
        ELSE [x |-> (sx * CentroidScale(Len(points))) \div Cardinality(Mine),
              y |-> (sy * CentroidScale(Len(points))) \div Cardinality(Mine)]]

\* The loop of at most 10 rounds, left when no centroid moved: the
\* assignments of its last round
RECURSIVE KMeansRun(_, _, _)
KMeansRun(points, centroids, iter) ==
  LET assignments == KMeansAssign(points, centroids)
      updated == KMeansUpdate(points, centroids, assignments)
  IN IF updated = centroids \/ iter + 1 >= 10 THEN assignments
     ELSE KMeansRun(points, updated, iter + 1)

\* "build clusters": the stops of each centroid in the order of `points`,
\* and empty clusters up to k
KMeansClusters(points, k) ==
  LET assignments == KMeansRun(points, KMeansCentroids(points, k), 0)
      Cluster(c) ==
        LET F[i \in 0..Len(points)] ==
              IF i = 0 THEN <<>>
              ELSE IF assignments[i - 1] = c THEN Append(F[i - 1], points[i]) ELSE F[i - 1]
        IN F[Len(points)]
  IN [c \in 0..k - 1 |-> IF c < Min(k, Len(points)) THEN Cluster(c) ELSE <<>>]

\* The clustering loop of calculateOptimalRoutesWithCapacity, run to its end
RECURSIVE ClusterRun(_)
ClusterRun(c) == IF c.pc = "loop" THEN ClusterRun(ClusterRound(c)) ELSE c

\* Stop lists of the multi-vehicle calls: none, or up to MaxStops stops with
\* a load each
FleetStops ==
  {<<>>} \cup UNION {{points \in StopLists(n) : \A i \in 1..n : points[i].loadMeters > 0} :
                       n \in 1..MaxStops}

\* points.length === 0 (|| vehicleCapacities.length === 0)
FleetEmptyInput(f) ==
  \/ Len(f.points) = 0
  \/ f.fn = "calculateOptimalRoutesWithCapacity" /\ DOMAIN f.vehicleCapacities = {}

\* The number of vehicles of a call
FleetK(f) ==
  IF f.fn = "calculateOptimalRoutes" THEN ClampVehicleCount(f.vehicleCount)
  ELSE Cardinality(DOMAIN f.vehicleCapacities)

\* A mean as the quotient the code divides out
Quotient(num, den) == [num |-> num, den |-> den]

\* The mutant: the early return gives every call one empty route.
FleetEmptyResultOneRoute(f) ==
  [routes |-> <<EmptyRoute>>, totalDistance |-> 0, totalDuration |-> 0,
   meanDuration |-> Quotient(0, 1),
   vehicleLoads |-> <<>>, vehicleCapacities |-> f.vehicleCapacities]

\* The result of the early return (routing.ts 105-112, 219-229)
FleetEmptyResult(f) ==
  [routes |-> <<>>, totalDistance |-> 0, totalDuration |-> 0,
   meanDuration |-> Quotient(0, 1),
   vehicleLoads |-> <<>>, vehicleCapacities |-> f.vehicleCapacities]

\* The vehicles that got a stop
UsedVehicles(f) == {v \in DOMAIN f.clusters : Len(f.clusters[v]) > 0}

\* The result of the final return (routing.ts 203-210, 369-379)
FleetResult(f) ==
  [routes |-> f.routes, totalDistance |-> f.totalDistance, totalDuration |-> f.totalDuration,
   meanDuration |->
     IF f.fn = "calculateOptimalRoutes"
     THEN Quotient(f.totalDuration, Max(1, FleetK(f)))
     ELSE Quotient(f.totalDuration, Max(1, Cardinality(UsedVehicles(f)))),
   vehicleLoads |-> f.vehicleLoads, vehicleCapacities |-> f.vehicleCapacities]

\* A call of an entry point; `clustered`, `optimized` and `lookups` tell the
\* work done so far: the clustering, the calls of calculateOptimalRoute that
\* ordered a route, the lookups issued
FleetStart(fn, points, vehicleCount, vehicleCapacities, startEndPoint, net) ==
  [fn |-> fn, points |-> points, vehicleCount |-> vehicleCount,
   vehicleCapacities |-> vehicleCapacities, startEndPoint |-> startEndPoint, net |-> net,
   pc |-> "called", clusters |-> <<>>, vehicleLoads |-> <<>>, i |-> 0,
   routes |-> <<>>, picks |-> <<>>, totalDistance |-> 0, totalDuration |-> 0,
   clustered |-> FALSE, optimized |-> 0, lookups |-> 0,
   error |-> "", result |-> <<>>]

FleetInit ==
  /\ \E points \in FleetStops : \E startEndPoint \in {NoPoint, START_END_LOCATION} :
       \E net \in Networks :
         \/ \E vehicleCount \in 0..MaxVehicles :
              fl = FleetStart("calculateOptimalRoutes", points, vehicleCount, <<>>,
                              startEndPoint, net)
         \/ \E vehicleCapacities \in CapacityLists :
              fl = FleetStart("calculateOptimalRoutesWithCapacity", points, 0,
                              vehicleCapacities, startEndPoint, net)
  /\ aco = Idle /\ tabu = Idle /\ cl = Idle /\ rt = Idle /\ search = Idle

\* routing.ts 105-112 and 219-229
FleetReturnEmpty ==
  /\ fl.pc = "called"
  /\ FleetEmptyInput(fl)
  /\ fl' = [fl EXCEPT !.pc = "done", !.result = FleetEmptyResult(fl)]
  /\ UNCHANGED <<aco, tabu, cl, rt, search>>

\* The call after calculateOptimalRoute threw
FleetThrown(f, thrown) == [f EXCEPT !.pc = "error", !.error = thrown.error]

\* The call after its single route (routing.ts 116-122)
FleetSingleDone(f, pick, single) ==
  [f EXCEPT !.pc = "done",
            !.picks = <<pick>>,
            !.optimized = @ + 1,
            !.lookups = @ + single.lookups,
            !.routes = <<single.result>>,
            !.totalDistance = single.result.totalDistance,
            !.totalDuration = single.result.totalDuration,
            !.result = [routes |-> <<single.result>>,
                        totalDistance |-> single.result.totalDistance,
                        totalDuration |-> single.result.totalDuration,
                        meanDuration |-> Quotient(single.result.totalDuration, 1),
                        vehicleLoads |-> <<>>,
                        vehicleCapacities |-> <<>>]]

\* The call after the route of vehicle i (routing.ts 195-198, 360-363)
FleetRoutePushed(f, pick, routeResult) ==
  [f EXCEPT !.routes = Append(@, routeResult.result),
            !.picks = Append(@, pick),
            !.optimized = @ + 1,
            !.lookups = @ + routeResult.lookups,
            !.totalDistance = @ + routeResult.result.totalDistance,
            !.totalDuration = @ + routeResult.result.totalDuration,
            !.i = @ + 1]

\* routing.ts 114-123: one vehicle, calculateOptimalRoutes
FleetSingle ==
  /\ fl.pc = "called"
  /\ ~FleetEmptyInput(fl)
  /\ fl.fn = "calculateOptimalRoutes" /\ FleetK(fl) = 1
  /\ \E pick \in Picks(fl.points, fl.startEndPoint) :
       \E single \in {calculateOptimalRoute(fl.points, fl.startEndPoint, pick, fl.net)} :
         fl' = IF single.thrown THEN FleetThrown(fl, single)
               ELSE FleetSingleDone(fl, pick, single)
  /\ UNCHANGED <<aco, tabu, cl, rt, search>>

\* routing.ts 125-182: the k-means and the clusters of calculateOptimalRoutes
FleetKMeans ==
  /\ fl.pc = "called"
  /\ ~FleetEmptyInput(fl)
  /\ fl.fn = "calculateOptimalRoutes" /\ FleetK(fl) > 1
  /\ fl' = [fl EXCEPT !.pc = "routes",
                      !.clustered = TRUE,
                      !.clusters = KMeansClusters(fl.points, FleetK(fl))]
  /\ UNCHANGED <<aco, tabu, cl, rt, search>>

\* routing.ts 231-341: the sort, the clustering and the vehicle assignments
\* of calculateOptimalRoutesWithCapacity
FleetCluster ==
  /\ fl.pc = "called"
  /\ ~FleetEmptyInput(fl)
  /\ fl.fn = "calculateOptimalRoutesWithCapacity"
  /\ LET c == ClusterRun(ClusterStart(fl.points, fl.vehicleCapacities))
     IN fl' = [fl EXCEPT !.pc = "routes",
                         !.clustered = TRUE,
                         !.vehicleLoads = c.vehicleLoads,
                         !.clusters = [v \in DOMAIN fl.vehicleCapacities |->
                                         VehicleAssignment(c, v)]]
  /\ UNCHANGED <<aco, tabu, cl, rt, search>>

\* routing.ts 186-191 and 346-357: a vehicle without stops
FleetVehicleEmpty ==
  /\ fl.pc = "routes"
  /\ fl.i < FleetK(fl)
  /\ Len(fl.clusters[fl.i]) = 0
  /\ fl' = [fl EXCEPT !.routes = Append(@, EmptyRoute),
                      !.picks = Append(@, <<>>),
                      !.i = @ + 1]
  /\ UNCHANGED <<aco, tabu, cl, rt, search>>

\* routing.ts 193-198 and 359-363: the route of a vehicle with stops
FleetVehicleRoute ==
  /\ fl.pc = "routes"
  /\ fl.i < FleetK(fl)
  /\ Len(fl.clusters[fl.i]) > 0
  /\ \E pick \in Picks(fl.clusters[fl.i], fl.startEndPoint) :
       \E routeResult \in {calculateOptimalRoute(fl.clusters[fl.i], fl.startEndPoint,
                                                 pick, fl.net)} :
         fl' = IF routeResult.thrown THEN FleetThrown(fl, routeResult)
               ELSE FleetRoutePushed(fl, pick, routeResult)
  /\ UNCHANGED <<aco, tabu, cl, rt, search>>

\* routing.ts 201-210 and 369-379
FleetReturn ==
  /\ fl.pc = "routes"
  /\ ~(fl.i < FleetK(fl))
  /\ fl' = [fl EXCEPT !.pc = "done", !.result = FleetResult(fl)]
  /\ UNCHANGED <<aco, tabu, cl, rt, search>>

FleetNext ==
  \/ FleetReturnEmpty
  \/ FleetSingle
  \/ FleetKMeans
  \/ FleetCluster
  \/ FleetVehicleEmpty
  \/ FleetVehicleRoute
  \/ FleetReturn

SpecFleet == FleetInit /\ [][FleetNext]_vars

\* The demand of all stops and the capacity of all vehicles of a call
TotalDemand(f) ==
  SumOver(1..Len(f.points), [i \in 1..Len(f.points) |-> f.points[i].loadMeters])

TotalCapacity(f) == SumOver(DOMAIN f.vehicleCapacities, f.vehicleCapacities)

\* The ids of the stops of all clusters of a call
ClusteredIds(f) ==
  UNION {{f.clusters[v][j].id : j \in 1..Len(f.clusters[v])} : v \in DOMAIN f.clusters}

\* C4 as stated: when the vehicles' total capacity is less than the total
\* demand, calculateOptimalRoutesWithCapacity raises no error, and returns
\* with every stop assigned to a vehicle and some vehicle loaded beyond its
\* capacity.
C4_OverflowNeverFatal ==
  (/\ fl.fn = "calculateOptimalRoutesWithCapacity"
   /\ Len(fl.points) > 0
   /\ TotalCapacity(fl) < TotalDemand(fl)) =>
    /\ fl.pc # "error"
    /\ fl.pc = "done" =>
         /\ ClusteredIds(fl) = {fl.points[i].id : i \in 1..Len(fl.points)}
         /\ \E v \in DOMAIN fl.vehicleCapacities :
              fl.result.vehicleLoads[v] > fl.result.vehicleCapacities[v]

\* C5 as stated: a call with one vehicle returns one route, with the order
\* and the total distance calculateOptimalRoute gives for the same stops,
\* depot, draws and lookup results.
C5_OneVehicleDelegates ==
  (fl.pc = "done" /\ Len(fl.points) > 0 /\ FleetK(fl) = 1) =>
    \A single \in {calculateOptimalRoute(fl.points, fl.startEndPoint, fl.picks[1], fl.net)} :
      /\ ~single.thrown
      /\ Len(fl.result.routes) = 1
      /\ fl.result.routes[1].route = single.result.route
      /\ fl.result.totalDistance = single.result.totalDistance

\* C6: a call of either entry point with an empty stop list raises no error,
\* clusters nothing, orders no route and issues no lookup, and returns no
\* routes with a total distance, a total duration and a mean duration of 0.
C6_EmptyStopsEmptyResult ==
  Len(fl.points) = 0 =>
    /\ fl.pc \in {"called", "done"}
    /\ fl.error = ""
    /\ ~fl.clustered /\ fl.optimized = 0 /\ fl.lookups = 0
    /\ fl.pc = "done" =>
         /\ fl.result.routes = <<>>
         /\ fl.result.totalDistance = 0
         /\ fl.result.totalDuration = 0
         /\ fl.result.meanDuration.num = 0

\* calculateOptimalRoutes returned from a call without stops for two
\* vehicles and a depot
C6_Witness ==
  /\ fl.pc = "done"
  /\ Len(fl.points) = 0
  /\ fl.fn = "calculateOptimalRoutes"
  /\ fl.vehicleCount = MaxVehicles
  /\ fl.startEndPoint = START_END_LOCATION
  /\ fl.result.routes = <<>>

\* C10 as stated: a multi-vehicle call that fails has clustered nothing,
\* ordered no route and issued no lookup.
C10_NoPartialComputation ==
  fl.pc = "error" => ~fl.clustered /\ fl.optimized = 0 /\ fl.lookups = 0

\* The vehicles of a result whose route holds a stop
RoutedVehicles(result) == {v \in 1..Len(result.routes) : Len(result.routes[v].route) > 0}

\* C11 as stated: a multi-vehicle call with stops returns a meanDuration equal
\* to its totalDuration divided by the number of vehicles that got a stop.
C11_MeanOverUsedVehicles ==
  (fl.pc = "done" /\ Len(fl.points) > 0) =>
    fl.result.meanDuration.num * Cardinality(RoutedVehicles(fl.result))
      = fl.result.totalDuration * fl.result.meanDuration.den

\* The positions of the stop of id `id` in the routes of a result
PositionsOf(result, id) ==
  {<<v, j>> \in (1..Len(result.routes)) \X (1..MaxStops + 3) :
     j <= Len(result.routes[v].route) /\ result.routes[v].route[j].id = id}

\* C12 as stated: a multi-vehicle call with stops and k >= 2 vehicles returns,
\* and returns exactly k routes, the route of a vehicle without stops being
\* the empty route with zero totals, and every stop is at exactly one
\* position of exactly one route.
C12_KRoutesPartitionStops ==
  (Len(fl.points) > 0 /\ FleetK(fl) >= 2) =>
    /\ fl.pc # "error"
    /\ fl.pc = "done" =>
         /\ Len(fl.result.routes) = FleetK(fl)
         /\ \A v \in DOMAIN fl.clusters :
              Len(fl.clusters[v]) = 0 => fl.result.routes[v + 1] = EmptyRoute
         /\ \A i \in 1..Len(fl.points) :
              Cardinality(PositionsOf(fl.result, fl.points[i].id)) = 1


----------------------------------------------------------------------------
(* Home.calculateRoute with vehicles selected (pages/home.tsx 132-134)     *)

\* The arguments of the call at home.tsx 134, in the order they are written
HomeArguments(points, vehicleCapacities) ==
  <<points, vehicleCapacities, START_END_LOCATION>>

\* calculateOptimalRoutesWithCapacity(points, vehicleCapacities, vehicleNames?,
\* startEndPoint?) called with these arguments: the parameters take them by
\* position, the ones without an argument are undefined
CallWithCapacity(arguments, net) ==
  FleetStart("calculateOptimalRoutesWithCapacity", arguments[1], 0, arguments[2],
             IF Len(arguments) >= 4 THEN arguments[4] ELSE NoPoint, net)

\* "if (vehicleCapacities.length > 0)": one vehicle selected or more
HomeInit ==
  /\ \E points \in FleetStops : \E vehicleCapacities \in CapacityLists : \E net \in Networks :
       fl = CallWithCapacity(HomeArguments(points, vehicleCapacities), net)
  /\ aco = Idle /\ tabu = Idle /\ cl = Idle /\ rt = Idle /\ search = Idle

HomeNext ==
  \/ FleetReturnEmpty
  \/ FleetCluster
  \/ FleetVehicleEmpty
  \/ FleetVehicleRoute
  \/ FleetReturn

SpecHome == HomeInit /\ [][HomeNext]_vars

\* C29 as stated: with a vehicle selected, START_END_LOCATION is the start/end
\* point of the call Home.calculateRoute makes, and every route with stops
\* that the call returns starts and ends at START_END_LOCATION.
C29_RoundTripsFromDepot ==
  /\ fl.pc # "idle" => fl.startEndPoint = START_END_LOCATION
  /\ fl.pc = "done" =>
       \A v \in 1..Len(fl.result.routes) :
         \A route \in {fl.result.routes[v].route} :
           route # <<>> =>
             /\ route[1] = START_END_LOCATION
             /\ route[Len(route)] = START_END_LOCATION

----------------------------------------------------------------------------
(* LocationSearch: the effect on debouncedQuery and the searches it starts *)
(* (components/LocationSearch.tsx 18-33, lib/geocoding.ts 8-44)            *)

\* The texts typed: a string is the sequence of its characters
Queries ==
  {<<>>, <<"a", "b">>, <<"a", "b", "c">>, <<"a", "b", "d">>, <<" ", " ", " ", " ">>}

\* query.trim()
RECURSIVE TrimStart(_)
TrimStart(q) == IF q # <<>> /\ q[1] = " " THEN TrimStart(Tail(q)) ELSE q

RECURSIVE TrimEnd(_)
TrimEnd(q) ==
  IF q # <<>> /\ q[Len(q)] = " " THEN TrimEnd(SubSeq(q, 1, Len(q) - 1)) ELSE q

Trim(q) == TrimEnd(TrimStart(q))

\* What the promise of searchLocation(query) can resolve with: [] for a short
\* query, else [] (an error caught, or nothing found) or the places found
searchLocation(query) ==
  IF query = <<>> \/ Len(Trim(query)) < 3 THEN {<<>>}
  ELSE {<<>>, <<[name |-> query]>>}

\* The component once mounted: the effect has run for the empty query
SearchStart ==
  [debouncedQuery |-> <<>>, results |-> <<>>, isSearching |-> FALSE,
   searches |-> <<>>, changes |-> 0, pc |-> "mounted"]

SearchInit ==
  /\ search = SearchStart
  /\ aco = Idle /\ tabu = Idle /\ cl = Idle /\ rt = Idle /\ fl = Idle

\* The effect of a render with a new debouncedQuery (LocationSearch.tsx 18-33)
SearchEffect(s, q) ==
  IF Len(q) >= 3
  THEN [s EXCEPT !.debouncedQuery = q,
                 !.changes = @ + 1,
                 !.isSearching = TRUE,
                 !.searches = Append(@, [query |-> q, pending |-> TRUE,
                                         locations |-> <<>>])]
  ELSE [s EXCEPT !.debouncedQuery = q,
                 !.changes = @ + 1,
                 !.results = <<>>]

\* ".then((locations) => { setResults(locations); setIsSearching(false); })"
\* of the j-th search
SearchThen(s, j, locations) ==
  [s EXCEPT !.results = locations,
            !.isSearching = FALSE,
            !.searches[j] = [@ EXCEPT !.pending = FALSE, !.locations = locations]]

\* useDebounce hands the component a new debouncedQuery
SearchQueryChanges ==
  /\ search.pc = "mounted"
  /\ search.changes < MaxChanges
  /\ \E q \in Queries \ {search.debouncedQuery} : search' = SearchEffect(search, q)
  /\ UNCHANGED <<aco, tabu, cl, rt, fl>>

\* The promise of a search in flight resolves
SearchResolves ==
  /\ search.pc = "mounted"
  /\ \E j \in 1..Len(search.searches) :
       /\ search.searches[j].pending
       /\ \E locations \in searchLocation(search.searches[j].query) :
            search' = SearchThen(search, j, locations)
  /\ UNCHANGED <<aco, tabu, cl, rt, fl>>

SearchNext == SearchQueryChanges \/ SearchResolves

SpecSearch == SearchInit /\ [][SearchNext]_vars

\* C30 as stated: once no search is in flight, the results shown are those
\* the search of the most recent debounced query resolved with, or empty when
\* that query has fewer than 3 characters; and the response of a search that is
\* not the latest, or whose query is no longer the debounced query, leaves the
\* results as they are.
C30_LatestQueryWins ==
  /\ [](search.pc = "mounted" =>
          ((\A j \in 1..Len(search.searches) : ~search.searches[j].pending) =>
             search.results
               = IF Len(search.debouncedQuery) >= 3
                 THEN search.searches[Len(search.searches)].locations
                 ELSE <<>>))
  /\ [][(search.pc = "mounted" /\ search'.changes = search.changes) =>
          \A j \in 1..Len(search.searches) :
            (/\ search.searches[j].pending
             /\ ~search'.searches[j].pending
             /\ (j < Len(search.searches)
                   \/ search.debouncedQuery # search.searches[j].query))
              => search'.results = search.results]_vars
============================================================================
